---- MODULE Spec2Model ----
(***************************************************************************)
(* Presence and real-time fan-out of the chat server.                      *)
(*                                                                         *)
(* The server keeps several independent real-time endpoints, each with its *)
(* own module-level registry.  Each endpoint is modelled by its own group  *)
(* of variables and its own next-state relation; the durable store (the    *)
(* User.isOnline flag, chat membership, messages) is shared.               *)
(*                                                                         *)
(*   SpecWS        Socket.IO namespace /WS (WSService, UserService,        *)
(*                 NotificationService) and the HTTP routes /chat/message  *)
(*                 and /chat/image that publish through it                 *)
(*   SpecChatWS    express-ws endpoint /chatWS and the HTTP send-message   *)
(*                 handler that fans out through it                        *)
(*   SpecChatRoom  express-ws endpoint /chatroom                           *)
(*   SpecFanout    /chatWS with calls of broadcastToChat                   *)
(*   SpecUsersWS   express-ws endpoint /usersWS                            *)
(*   SpecRoomMsg   /chatroom with the payloads its sockets send            *)
(*   SpecRoomJoin  /chatroom with join_chat payloads                       *)
(*   SpecRoomFan   /chatroom with typing payloads (sendToUser)             *)
(*   SpecChat      express-ws endpoint /chat with its history              *)
(*   SpecAuth      HTTP routes /login, /token/refresh and /logout          *)
(*   SpecPersist   the message send paths of /usersWS, /chatroom and HTTP  *)
(*   SpecAnon      the handshakes of /WS, /chatWS and /chatroom            *)
(*                                                                         *)
(* Every `await` of the source is a suspension point: a handler is cut     *)
(* into one action per stretch of code between two awaits, and the         *)
(* storage call awaited takes effect in the action that resumes.           *)
(***************************************************************************)
EXTENDS Integers, Sequences, FiniteSets, TLC

\* ------------------------------------------------------------------ bounds
MaxUsers == 3
MaxChats == 2
MaxSockets == 3
MaxHttpSockets == 2
MaxReqs == 1
MaxCwConns == 3
MaxSendConns == 2
MaxCrConns == 3
MaxRoomUsers == 2
MaxFanConns == 2
MaxUwConns == 2
MaxUwUsers == 2
MaxUwMsgs == 1
MaxRoomMsgConns == 2
MaxCrMsgs == 2
MaxJoinMsgs == 2
MaxChatConns == 2
MaxChatMsgs == 2
MaxAuthUsers == 1
MaxClock == 1
MaxAuthReqs == 4
MaxPersistConns == 2
MaxPersistSendConns == 1
MaxPersistMsgs == 1
MaxAnonConns == 2

Users == 1..MaxUsers
NoUser == 0
Chats == 1..MaxChats
Sockets == 1..MaxSockets
Reqs == 1..MaxReqs
CwConns == 1..MaxCwConns
CrConns == 1..MaxCrConns
RoomUsers == 1..MaxRoomUsers
UwConns == 1..MaxUwConns
UwUsers == 1..MaxUwUsers
UwMsgs == 1..MaxUwMsgs
CrMsgs == 1..MaxCrMsgs
NoSocket == 0

\* Outcomes of one awaited storage call: TRUE resolves, FALSE rejects.
StorageOutcomes == {TRUE, FALSE}

VARIABLES
    \* durable store (prisma)
    dbOnline,      \* User.isOnline, per user
    dbMembers,     \* ChatMember rows: chat -> set of users ({} = no such chat)
    dbMsgs,        \* Message rows
    faulted,       \* history: some awaited storage call has rejected
    \* /WS (Socket.IO)
    wsPc,          \* position of the connection handler / disconnect handler of a socket
    wsUser,        \* the userId the handshake of the socket carries
    wsLive,        \* the socket is connected (member of nsp.sockets)
    onlineUsers,   \* UserService.onlineUsers: user -> socket id (NoSocket = no entry)
    wsOnlineEv,    \* history: per user, USER_ONLINE events emitted to the namespace
    wsOfflineEv,   \* history: per user, USER_OFFLINE events emitted to the namespace
    wsDelivered,   \* history: CHAT_MESSAGE deliveries, <<message id, socket>>
    wsDrops,       \* history: per user, times the live authenticated sockets went 1 -> 0
    \* HTTP /chat/message and /chat/image
    hmPc, hmReq, hmStatus,
    \* /chatWS (setupChatWebSocket.ts)
    cwPc,          \* position of the connection handler / close handler of a connection
    cwUser,        \* userConnection.userId (NoUser = undefined)
    cwState,       \* ws.readyState: "NONE" (not yet accepted), "OPEN", "CLOSED"
    userConnections, \* the module's array of connections, in push order
    subscribedChats, \* userConnection.subscribedChats
    cwSent,        \* history: new_message envelopes passed to ws.send
    cwHist,        \* history, per connection: what its handlers saw and did
    \* HTTP send-message (handleSendMessage)
    hsPc, hsReq, hsTarget, hsStatus,
    \* /chatroom (setupChatRoom)
    crPc,          \* position of the connection handler / close handler of a socket
    crUser,        \* req.query.userId (NoUser = absent)
    crState,       \* ws.readyState: "NONE", "OPEN", "CLOSED"
    roomKeys,      \* the keys of the Map userConnections
    roomClients,   \* userConnections.get(userId): the sockets of a user, in push order
    userActiveChats, \* userActiveChats: user -> chat id (0 = no entry)
    crSeen,        \* per socket: the users whose user_joined was sent to it
    crHist,        \* history, per socket: what its handlers saw and did
    \* broadcastToChat
    bcCall,        \* history: the latest call of broadcastToChat, what it did and returned
    crCall,        \* history: the latest call of sendToUser of /chatroom and what it did
    \* /usersWS (setupUsersWebSocket.ts)
    uwPc,          \* position of the connection handler / close handler of a connection
    uwUser,        \* userConnection.userId (NoUser = undefined)
    uwState,       \* ws.readyState: "NONE", "OPEN", "CLOSED"
    uwConnections, \* the module's array userConnections, in push order
    uwMsgPc,       \* position of the 'message' listener run for an inbound payload
    uwMsg,         \* the inbound payload: its connection, kind, senderId, receiverId
    uwChat,        \* the chat getOrCreateDirectChat returned for the payload
    uwFailed,      \* history: the storage call of the payload's handler that rejected
    uwSent,        \* history: envelopes passed to ws.send
    \* /chatroom, 'message' listener (handleMessage, handlePrivateMessage)
    crMsgPc,       \* position of the 'message' listener run for an inbound payload
    crMsg,         \* the inbound payload: its socket, kind, receiverId
    crChat,        \* the chat getOrCreatePrivateChat returned for the payload
    crFailed,      \* history: the storage call of the payload's handler that rejected
    crOut,         \* history: envelopes passed to ws.send for a payload
    crStored,      \* history: the payloads whose Message row was created, in creation order
    crOrder,       \* history, per socket: the private_message envelopes sent to it, in order
    \* /chat (chatHandler.ts)
    chPc,          \* position of the connection handler of a client
    chState,       \* ws.readyState: "NONE", "OPEN", "CLOSED"
    clients,       \* the module's Map clients: the sockets that are keys
    chRows,        \* chat_messages rows
    chSnap,        \* per client: the rows its findMany read
    chGot,         \* history, per client: the envelopes passed to ws.send, in order
    chMsgPc,       \* position of the 'message' listener run for an inbound payload
    chMsgConn,     \* the client an inbound payload came from
    \* /login, /token/refresh, /logout (authorizationUserRouter.ts)
    auPc,          \* position of the handler of a request
    auReq,         \* the request: its route, user or refreshToken; late = the token
                   \* had been removed by a /logout when the request came in
    auStatus,      \* the HTTP status answered (0 = none yet)
    auRows,        \* userRefreshToken rows: how many hold each token
    auRevoked,     \* history: the tokens a /logout has removed
    now            \* the clock jwt.sign reads, in seconds

dbVars == <<dbOnline, dbMembers, dbMsgs, faulted>>
wsVars == <<wsPc, wsUser, wsLive, onlineUsers, wsOnlineEv, wsOfflineEv, wsDelivered, wsDrops>>
hmVars == <<hmPc, hmReq, hmStatus>>
cwVars == <<cwPc, cwUser, cwState, userConnections, subscribedChats, cwSent, cwHist>>
hsVars == <<hsPc, hsReq, hsTarget, hsStatus>>

\* What the handlers of one endpoint leave alone: the state of the others.
crVars == <<crPc, crUser, crState, roomKeys, roomClients, userActiveChats, crSeen, crHist>>
bcVars == <<bcCall, crCall>>
uwVars == <<uwPc, uwUser, uwState, uwConnections, uwMsgPc, uwMsg, uwChat, uwFailed, uwSent>>
crMsgVars == <<crMsgPc, crMsg, crChat, crFailed, crOut, crStored, crOrder>>
chVars == <<chPc, chState, clients, chRows, chSnap, chGot, chMsgPc, chMsgConn>>
auVars == <<auPc, auReq, auStatus, auRows, auRevoked, now>>
restA == <<cwVars, hsVars, crVars, bcVars, uwVars, crMsgVars,
          chVars, auVars>>
restB == <<wsVars, hmVars, crVars, bcVars, uwVars, crMsgVars,
          chVars, auVars>>
restC == <<wsVars, hmVars, cwVars, hsVars, bcVars, uwVars, crMsgVars,
          chVars, auVars>>
restD == <<wsVars, hmVars, cwVars, hsVars, crVars, uwVars, crMsgVars,
          chVars, auVars>>
restU == <<wsVars, hmVars, cwVars, hsVars, crVars, bcVars, crMsgVars,
          chVars, auVars>>
restM == <<wsVars, hmVars, cwVars, hsVars, bcVars, uwVars,
          chVars, auVars>>

\* ------------------------------------------------------------------ store
\* The store the server starts on: one DIRECT chat between users 1 and 2,
\* everybody offline, no message.
InitMembers == [ch \in Chats |-> IF ch = 1 THEN {1, 2} ELSE {}]

DbInit ==
    /\ dbOnline = [u \in Users |-> FALSE]
    /\ dbMembers = InitMembers
    /\ dbMsgs = {}
    /\ faulted = FALSE

\* prisma.user.update({ data: { isOnline } }) resolved.
SetOnline(u, b) == [dbOnline EXCEPT ![u] = b]

\* ------------------------------------------------------------------ /WS
WsInit ==
    /\ wsPc = [s \in Sockets |-> "idle"]
    /\ wsUser = [s \in Sockets |-> NoUser]
    /\ wsLive = [s \in Sockets |-> FALSE]
    /\ onlineUsers = [u \in Users |-> NoSocket]
    /\ wsOnlineEv = [u \in Users |-> 0]
    /\ wsOfflineEv = [u \in Users |-> 0]
    /\ wsDelivered = {}
    /\ wsDrops = [u \in Users |-> 0]

\* UserService.isUserOnline
isUserOnline(u) == onlineUsers[u] # NoSocket

\* Namespace.emit: every socket connected to the namespace receives the event.
NspRecipients == {s \in Sockets : wsLive[s]}

\* NotificationService.notify -> broadcast -> namespace.emit, for the event
\* the caller names: the counter of that event for user u after the call.
Notify(counter, u) == [counter EXCEPT ![u] = @ + 1]

\* NotificationService.notify('CHAT_MESSAGE', { message }): the deliveries
\* after the call.
NotifyMessage(m) == wsDelivered \cup {<<m, s>> : s \in NspRecipients}

\* A socket whose identity was resolved and that has not disconnected.
WsAuthed(s) == wsPc[s] \in {"upd", "data", "ready"}
WsLiveOf(u) == {s \in Sockets : wsLive[s] /\ wsUser[s] = u /\ WsAuthed(s)}

\* nsp.on('connection'): logs, registers the error listeners and awaits
\* AuthService.getUserFromSocket.  Without a userId in the handshake the
\* lookup returns null at once and the socket is disconnected.
WsConnect(s, uid) ==
    /\ wsPc[s] = "idle"
    /\ \A t \in Sockets : t < s => wsPc[t] # "idle"
    /\ wsUser' = [wsUser EXCEPT ![s] = uid]
    /\ IF uid = NoUser
         THEN /\ wsPc' = [wsPc EXCEPT ![s] = "gone"]
              /\ wsLive' = wsLive
         ELSE /\ wsPc' = [wsPc EXCEPT ![s] = "auth"]
              /\ wsLive' = [wsLive EXCEPT ![s] = TRUE]
    /\ UNCHANGED <<onlineUsers, wsOnlineEv, wsOfflineEv, wsDelivered, wsDrops, dbVars, hmVars, restA>>

\* getUserFromSocket resumed: a rejected findUnique is caught and gives null,
\* null disconnects the socket; otherwise onUserConnected starts and awaits
\* the isOnline=true update.
WsAuthDone(s) ==
    /\ wsPc[s] = "auth"
    /\ \E ok \in StorageOutcomes :
         /\ faulted' = (faulted \/ ~ok)
         /\ IF ok
              THEN /\ wsPc' = [wsPc EXCEPT ![s] = "upd"]
                   /\ wsLive' = wsLive
              ELSE /\ wsPc' = [wsPc EXCEPT ![s] = "gone"]
                   /\ wsLive' = [wsLive EXCEPT ![s] = FALSE]
    /\ UNCHANGED <<wsUser, onlineUsers, wsOnlineEv, wsOfflineEv, wsDelivered, wsDrops,
                   dbOnline, dbMembers, dbMsgs, hmVars, restA>>

\* onUserConnected after its update: the entry of the user is (re)set to this
\* socket and getUserData is awaited; a rejected update is caught, nothing
\* is set, and the connection handler goes on to register 'disconnect'.
WsConnUpdate(s) ==
    /\ wsPc[s] = "upd"
    /\ \E ok \in StorageOutcomes :
         /\ faulted' = (faulted \/ ~ok)
         /\ IF ok
              THEN /\ dbOnline' = SetOnline(wsUser[s], TRUE)
                   /\ onlineUsers' = [onlineUsers EXCEPT ![wsUser[s]] = s]
                   /\ wsPc' = [wsPc EXCEPT ![s] = "data"]
              ELSE /\ UNCHANGED <<dbOnline, onlineUsers>>
                   /\ wsPc' = [wsPc EXCEPT ![s] = "ready"]
    /\ UNCHANGED <<wsUser, wsLive, wsOnlineEv, wsOfflineEv, wsDelivered, wsDrops,
                   dbMembers, dbMsgs, hmVars, restA>>

\* onUserConnected after getUserData (which catches its own errors):
\* USER_ONLINE is notified, the handler registers 'disconnect'.
WsConnNotify(s) ==
    /\ wsPc[s] = "data"
    /\ wsOnlineEv' = Notify(wsOnlineEv, wsUser[s])
    /\ wsPc' = [wsPc EXCEPT ![s] = "ready"]
    /\ UNCHANGED <<wsUser, wsLive, onlineUsers, wsOfflineEv, wsDelivered, wsDrops, dbVars, hmVars, restA>>

\* The transport of a socket goes away.  The 'disconnect' listener exists
\* only once the connection handler has finished; it runs
\* onUserDisconnected(user.id), which returns at once when the user has no
\* entry and otherwise awaits the isOnline=false update.
WsDisconnect(s) ==
    /\ wsLive[s]
    /\ wsLive' = [wsLive EXCEPT ![s] = FALSE]
    /\ wsDrops' = IF WsLiveOf(wsUser[s]) = {s}
                    THEN [wsDrops EXCEPT ![wsUser[s]] = @ + 1]
                    ELSE wsDrops
    /\ wsPc' = IF wsPc[s] = "ready"
                 THEN [wsPc EXCEPT ![s] =
                         IF isUserOnline(wsUser[s]) THEN "dupd" ELSE "gone"]
                 ELSE wsPc
    /\ UNCHANGED <<wsUser, onlineUsers, wsOnlineEv, wsOfflineEv, wsDelivered, dbVars, hmVars, restA>>

\* onUserDisconnected after its update: the entry of the user is deleted and
\* USER_OFFLINE is notified; a rejected update is caught and changes nothing.
WsDiscUpdate(s) ==
    /\ wsPc[s] = "dupd"
    /\ wsPc' = [wsPc EXCEPT ![s] = "gone"]
    /\ \E ok \in StorageOutcomes :
         /\ faulted' = (faulted \/ ~ok)
         /\ IF ok
              THEN /\ dbOnline' = SetOnline(wsUser[s], FALSE)
                   /\ onlineUsers' = [onlineUsers EXCEPT ![wsUser[s]] = NoSocket]
                   /\ wsOfflineEv' = Notify(wsOfflineEv, wsUser[s])
              ELSE UNCHANGED <<dbOnline, onlineUsers, wsOfflineEv>>
    /\ UNCHANGED <<wsUser, wsLive, wsOnlineEv, wsDelivered, wsDrops, dbMembers, dbMsgs, hmVars, restA>>

\* ------------------------------------------------ HTTP /chat/message, /chat/image
NoReq == [sender |-> NoUser, chat |-> 0, kind |-> "none"]

HmInit ==
    /\ hmPc = [r \in Reqs |-> "idle"]
    /\ hmReq = [r \in Reqs |-> NoReq]
    /\ hmStatus = [r \in Reqs |-> 0]

\* The Message row a request creates (its uuid is the request's number).
MsgOf(r) == [id |-> r, chat |-> hmReq[r].chat, sender |-> hmReq[r].sender,
             kind |-> hmReq[r].kind]

\* chatMember.findUnique({ chatId_userId }) of the request's sender
IsMember(ch, u) == u \in dbMembers[ch]

\* What router.post('/chat/message') does with the row findUnique returned:
\* without a row it answers 403 and returns.
TextMemberGate(r) == IsMember(hmReq[r].chat, hmReq[r].sender)

\* What router.post('/chat/image') does with the row findUnique returned:
\* the awaited result is dropped, the handler goes on whatever it is.
ImageMemberGate(r) == TRUE

\* A request arrives with a valid token (authenticateToken), a chatId and a
\* body (content, or a file): the handler awaits the membership lookup.
HmStart(r, u, ch, k) ==
    /\ hmPc[r] = "idle"
    /\ \A q \in Reqs : q < r => hmPc[q] # "idle"
    /\ hmReq' = [hmReq EXCEPT ![r] = [sender |-> u, chat |-> ch, kind |-> k]]
    /\ hmPc' = [hmPc EXCEPT ![r] = "member"]
    /\ UNCHANGED <<hmStatus, dbVars, wsVars, restA>>

\* The membership lookup resolved (or rejected: 500).
HmMember(r) ==
    /\ hmPc[r] = "member"
    /\ \E ok \in StorageOutcomes :
         /\ faulted' = (faulted \/ ~ok)
         /\ IF ~ok
              THEN /\ hmPc' = [hmPc EXCEPT ![r] = "done"]
                   /\ hmStatus' = [hmStatus EXCEPT ![r] = 500]
              ELSE IF hmReq[r].kind = "text"
                THEN IF TextMemberGate(r)
                       THEN /\ hmPc' = [hmPc EXCEPT ![r] = "create"]
                            /\ hmStatus' = hmStatus
                       ELSE /\ hmPc' = [hmPc EXCEPT ![r] = "done"]
                            /\ hmStatus' = [hmStatus EXCEPT ![r] = 403]
                ELSE IF ImageMemberGate(r)
                       THEN /\ hmPc' = [hmPc EXCEPT ![r] = "upload"]
                            /\ hmStatus' = hmStatus
                       ELSE /\ hmPc' = [hmPc EXCEPT ![r] = "done"]
                            /\ hmStatus' = [hmStatus EXCEPT ![r] = 403]
    /\ UNCHANGED <<hmReq, dbOnline, dbMembers, dbMsgs, wsVars, restA>>

\* createImgInBucket resolved: anything but resCode 200 with a url answers 500.
HmUpload(r) ==
    /\ hmPc[r] = "upload"
    /\ \E ok \in StorageOutcomes :
         IF ok
           THEN /\ hmPc' = [hmPc EXCEPT ![r] = "create"]
                /\ hmStatus' = hmStatus
           ELSE /\ hmPc' = [hmPc EXCEPT ![r] = "done"]
                /\ hmStatus' = [hmStatus EXCEPT ![r] = 500]
    /\ UNCHANGED <<hmReq, dbVars, wsVars, restA>>

\* prisma.message.create resolved; it rejects when the chat does not exist
\* (Message.chatId is a foreign key).  The handler then awaits chat.update.
HmCreate(r) ==
    /\ hmPc[r] = "create"
    /\ \E ok \in StorageOutcomes :
         LET stored == ok /\ dbMembers[hmReq[r].chat] # {} IN
         /\ faulted' = (faulted \/ ~ok)
         /\ IF stored
              THEN /\ dbMsgs' = dbMsgs \cup {MsgOf(r)}
                   /\ hmPc' = [hmPc EXCEPT ![r] = "update"]
                   /\ hmStatus' = hmStatus
              ELSE /\ dbMsgs' = dbMsgs
                   /\ hmPc' = [hmPc EXCEPT ![r] = "done"]
                   /\ hmStatus' = [hmStatus EXCEPT ![r] = 500]
    /\ UNCHANGED <<hmReq, dbOnline, dbMembers, wsVars, restA>>

\* chat.update resolved: CHAT_MESSAGE is notified and 201 answered.
HmUpdate(r) ==
    /\ hmPc[r] = "update"
    /\ hmPc' = [hmPc EXCEPT ![r] = "done"]
    /\ \E ok \in StorageOutcomes :
         /\ faulted' = (faulted \/ ~ok)
         /\ IF ok
              THEN /\ wsDelivered' = NotifyMessage(r)
                   /\ hmStatus' = [hmStatus EXCEPT ![r] = 201]
              ELSE /\ wsDelivered' = wsDelivered
                   /\ hmStatus' = [hmStatus EXCEPT ![r] = 500]
    /\ UNCHANGED <<hmReq, dbOnline, dbMembers, dbMsgs, wsPc, wsUser, wsLive,
                   onlineUsers, wsOnlineEv, wsOfflineEv, wsDrops, restA>>

\* ------------------------------------------------------------------ /chatWS
NoHist == [first |-> FALSE, last |-> FALSE, wroteOnline |-> FALSE,
           pubOnline |-> FALSE, wroteOffline |-> FALSE, pubOffline |-> FALSE]

CwInit ==
    /\ cwPc = [c \in CwConns |-> "idle"]
    /\ cwUser = [c \in CwConns |-> NoUser]
    /\ cwState = [c \in CwConns |-> "NONE"]
    /\ userConnections = <<>>
    /\ subscribedChats = [c \in CwConns |-> {}]
    /\ cwSent = {}
    /\ cwHist = [c \in CwConns |-> NoHist]

Range(q) == {q[i] : i \in 1..Len(q)}

\* Mutant of Splice: splice(indexOf(c)) without a delete count, which cuts
\* the array from c on.
SpliceFrom(q, c) ==
    IF c \in Range(q)
      THEN SubSeq(q, 1, (CHOOSE j \in 1..Len(q) : q[j] = c) - 1)
      ELSE q

\* userConnections.splice(indexOf(c), 1), when indexOf(c) > -1
Splice(q, c) == SelectSeq(q, LAMBDA x : x # c)

\* The connections of the registry that belong to user u and are OPEN.
CwLiveOf(u) == {c \in Range(userConnections) : cwUser[c] = u /\ cwState[c] = "OPEN"}

\* Mutant of ChatsOf: findMany without its where clause, every chat there is.
ChatsOfNoFilter(u) == {ch \in Chats : dbMembers[ch] # {}}

\* prisma.chat.findMany({ where: { members: { some: { userId } } } })
ChatsOf(u) == {ch \in Chats : u \in dbMembers[ch]}

\* subscribeToChat, for every chat autoSubscribeToUserChats found
AutoSubscribe(c, found) == [subscribedChats EXCEPT ![c] = @ \cup found]

\* broadcastToChat(chatId, message): the connections ws.send is called on.
ChatRecipients(ch) ==
    {c \in Range(userConnections) : ch \in subscribedChats[c] /\ cwState[c] = "OPEN"}

\* sendToUser(userId, message): the connections ws.send is called on.
UserRecipients(u) ==
    {c \in Range(userConnections) : cwUser[c] = u /\ cwState[c] = "OPEN"}

\* broadcastToChat(chatId, message) for every chat of chs (a forEach of the
\* callers): the connections that are sent the envelope at least once.
BroadcastToChats(chs) == UNION {ChatRecipients(ch) : ch \in chs}

\* The new_message deliveries of broadcastToChat(ch, envelope of message m).
MessageToChat(ch, m) == {[to |-> c, via |-> "chat", msg |-> m] : c \in ChatRecipients(ch)}

\* The new_message deliveries of sendToUser(u, envelope of message m).
MessageToUser(u, m) == {[to |-> c, via |-> "user", msg |-> m] : c \in UserRecipients(u)}

\* app.ws('/chatWS'): the userId cookie is read, the connection is pushed to
\* userConnections.  Without a userId the handler sends 'connect' and
\* registers its listeners at once; with one it awaits the isOnline=true
\* update first.
CwConnect(c, uid) ==
    /\ cwPc[c] = "idle"
    /\ \A b \in CwConns : b < c => cwPc[b] # "idle"
    /\ cwUser' = [cwUser EXCEPT ![c] = uid]
    /\ cwState' = [cwState EXCEPT ![c] = "OPEN"]
    /\ userConnections' = Append(userConnections, c)
    /\ cwHist' = [cwHist EXCEPT ![c].first = (uid # NoUser /\ CwLiveOf(uid) = {})]
    /\ IF uid = NoUser
         THEN cwPc' = [cwPc EXCEPT ![c] = "ready"]
         ELSE cwPc' = [cwPc EXCEPT ![c] = "wOnline"]
    /\ UNCHANGED <<subscribedChats, cwSent, dbVars, hsVars, restB>>

\* The isOnline=true update resolved: autoSubscribeToUserChats awaits its
\* findMany.  Rejected: the catch logs, 'connect' is sent and the listeners
\* are registered.
CwOnlineDone(c) ==
    /\ cwPc[c] = "wOnline"
    /\ \E ok \in StorageOutcomes :
         /\ faulted' = (faulted \/ ~ok)
         /\ IF ok
              THEN /\ dbOnline' = SetOnline(cwUser[c], TRUE)
                   /\ cwHist' = [cwHist EXCEPT ![c].wroteOnline = TRUE]
                   /\ cwPc' = [cwPc EXCEPT ![c] = "wAutoSub"]
              ELSE /\ UNCHANGED <<dbOnline, cwHist>>
                   /\ cwPc' = [cwPc EXCEPT ![c] = "ready"]
    /\ UNCHANGED <<cwUser, cwState, userConnections, subscribedChats, cwSent, dbMembers,
                   dbMsgs, hsVars, restB>>

\* autoSubscribeToUserChats resumed: every chat found is subscribed (a
\* rejection is caught inside and subscribes nothing); the handler awaits
\* the second findMany.
CwAutoSubDone(c) ==
    /\ cwPc[c] = "wAutoSub"
    /\ \E ok \in StorageOutcomes :
         /\ faulted' = (faulted \/ ~ok)
         /\ subscribedChats' = IF ok THEN AutoSubscribe(c, ChatsOf(cwUser[c]))
                                     ELSE subscribedChats
    /\ cwPc' = [cwPc EXCEPT ![c] = "wChats"]
    /\ UNCHANGED <<cwUser, cwState, userConnections, cwSent, cwHist, dbOnline, dbMembers,
                   dbMsgs, hsVars, restB>>

\* The second findMany resolved: user_online is broadcast to every chat of
\* the user (rejected: caught); then 'connect' is sent and the 'message',
\* 'close' and 'error' listeners are registered.
CwChatsDone(c) ==
    /\ cwPc[c] = "wChats"
    /\ \E ok \in StorageOutcomes :
         LET out == IF ok THEN BroadcastToChats(ChatsOf(cwUser[c])) ELSE {} IN
         /\ faulted' = (faulted \/ ~ok)
         /\ cwHist' = [cwHist EXCEPT ![c].pubOnline = (out # {})]
    /\ cwPc' = [cwPc EXCEPT ![c] = "ready"]
    /\ UNCHANGED <<cwUser, cwState, userConnections, subscribedChats, cwSent, dbOnline,
                   dbMembers, dbMsgs, hsVars, restB>>

\* Mutant of CwClose: the close listener does not test userConnection.userId
\* and awaits the isOnline=false update for every connection.
CwCloseNoIdentityTest(c) ==
    /\ cwState[c] = "OPEN"
    /\ cwState' = [cwState EXCEPT ![c] = "CLOSED"]
    /\ cwHist' = [cwHist EXCEPT ![c].last =
                    (cwUser[c] # NoUser /\ CwLiveOf(cwUser[c]) = {c})]
    /\ IF cwPc[c] = "ready"
         THEN /\ cwPc' = [cwPc EXCEPT ![c] = "wOffline"]
              /\ userConnections' = userConnections
         ELSE UNCHANGED <<cwPc, userConnections>>
    /\ UNCHANGED <<cwUser, subscribedChats, cwSent, dbVars, hsVars, restB>>

\* The transport closes.  'close' reaches a listener only if the connection
\* handler has registered it; the listener awaits the isOnline=false update
\* of an identified connection and removes an anonymous one at once.
CwClose(c) ==
    /\ cwState[c] = "OPEN"
    /\ cwState' = [cwState EXCEPT ![c] = "CLOSED"]
    /\ cwHist' = [cwHist EXCEPT ![c].last =
                    (cwUser[c] # NoUser /\ CwLiveOf(cwUser[c]) = {c})]
    /\ IF cwPc[c] = "ready"
         THEN IF cwUser[c] # NoUser
                THEN /\ cwPc' = [cwPc EXCEPT ![c] = "wOffline"]
                     /\ userConnections' = userConnections
                ELSE /\ cwPc' = [cwPc EXCEPT ![c] = "closed"]
                     /\ userConnections' = Splice(userConnections, c)
         ELSE UNCHANGED <<cwPc, userConnections>>
    /\ UNCHANGED <<cwUser, subscribedChats, cwSent, dbVars, hsVars, restB>>

\* The isOnline=false update of the close listener resolved: user_offline is
\* broadcast to the chats the connection subscribed (rejected: caught); the
\* connection is then removed from userConnections.
CwOfflineDone(c) ==
    /\ cwPc[c] = "wOffline"
    /\ \E ok \in StorageOutcomes :
         LET out == IF ok THEN BroadcastToChats(subscribedChats[c]) ELSE {} IN
         /\ faulted' = (faulted \/ ~ok)
         /\ dbOnline' = IF ok THEN SetOnline(cwUser[c], FALSE) ELSE dbOnline
         /\ cwHist' = [cwHist EXCEPT ![c].wroteOffline = ok, ![c].pubOffline = (out # {})]
    /\ userConnections' = Splice(userConnections, c)
    /\ cwPc' = [cwPc EXCEPT ![c] = "closed"]
    /\ UNCHANGED <<cwUser, cwState, subscribedChats, cwSent, dbMembers, dbMsgs, hsVars, restB>>

\* /chatWS alone.
CwNext ==
    \/ \E c \in CwConns, uid \in Users \cup {NoUser} : CwConnect(c, uid)
    \/ \E c \in CwConns : CwOnlineDone(c)
    \/ \E c \in CwConns : CwAutoSubDone(c)
    \/ \E c \in CwConns : CwChatsDone(c)
    \/ \E c \in CwConns : CwClose(c)
    \/ \E c \in CwConns : CwOfflineDone(c)

\* ------------------------------------------------ HTTP send-message
NoSend == [sender |-> NoUser, receiver |-> NoUser, chat |-> 0]

HsInit ==
    /\ hsPc = [r \in Reqs |-> "idle"]
    /\ hsReq = [r \in Reqs |-> NoSend]
    /\ hsTarget = [r \in Reqs |-> 0]
    /\ hsStatus = [r \in Reqs |-> 0]

\* prisma.chat.findFirst: the DIRECT chats both users are members of.
DirectChats(a, b) == {ch \in Chats : {a, b} \subseteq dbMembers[ch]}

\* The chats prisma.chat.create can still make (ids not in use).
FreeChats == {ch \in Chats : dbMembers[ch] = {}}

Least(S) == CHOOSE x \in S : \A y \in S : x <= y

\* The Message row handleSendMessage creates.
SendMsgOf(r) == [id |-> r, chat |-> hsTarget[r], sender |-> hsReq[r].sender, kind |-> "send"]

\* handleSendMessage up to its first await: content and receiverId are
\* present (400 otherwise), a message to oneself is answered 400; with a
\* chatId the membership of the sender is looked up, without one the DIRECT
\* chat of the two users.
HsStart(r, u, v, ch) ==
    /\ hsPc[r] = "idle"
    /\ \A q \in Reqs : q < r => hsPc[q] # "idle"
    /\ hsReq' = [hsReq EXCEPT ![r] = [sender |-> u, receiver |-> v, chat |-> ch]]
    /\ IF u = v
         THEN /\ hsPc' = [hsPc EXCEPT ![r] = "done"]
              /\ hsStatus' = [hsStatus EXCEPT ![r] = 400]
              /\ hsTarget' = hsTarget
         ELSE /\ hsPc' = [hsPc EXCEPT ![r] = IF ch # 0 THEN "member" ELSE "find"]
              /\ hsStatus' = hsStatus
              /\ hsTarget' = [hsTarget EXCEPT ![r] = ch]
    /\ UNCHANGED <<dbVars, cwVars, restB>>

\* A rejected await is not caught anywhere in handleSendMessage: the handler
\* stops and the request is never answered.
HsReject(r) ==
    /\ hsPc' = [hsPc EXCEPT ![r] = "done"]
    /\ UNCHANGED <<hsReq, hsTarget, hsStatus, dbOnline, dbMembers, dbMsgs, cwVars, restB>>

\* chatMember.findFirst resolved: 403 without a membership.
HsMember(r) ==
    /\ hsPc[r] = "member"
    /\ \E ok \in StorageOutcomes :
         /\ faulted' = (faulted \/ ~ok)
         /\ IF ~ok THEN HsReject(r)
            ELSE /\ IF IsMember(hsReq[r].chat, hsReq[r].sender)
                      THEN /\ hsPc' = [hsPc EXCEPT ![r] = "exists"]
                           /\ hsStatus' = hsStatus
                      ELSE /\ hsPc' = [hsPc EXCEPT ![r] = "done"]
                           /\ hsStatus' = [hsStatus EXCEPT ![r] = 403]
                 /\ UNCHANGED <<hsReq, hsTarget, dbOnline, dbMembers, dbMsgs, cwVars, restB>>

\* chat.findFirst resolved: the chat found is the target; without one,
\* chat.create is awaited.
HsFind(r) ==
    /\ hsPc[r] = "find"
    /\ \E ok \in StorageOutcomes :
         LET found == DirectChats(hsReq[r].sender, hsReq[r].receiver) IN
         /\ faulted' = (faulted \/ ~ok)
         /\ IF ~ok THEN HsReject(r)
            ELSE /\ IF found # {}
                      THEN /\ hsPc' = [hsPc EXCEPT ![r] = "exists"]
                           /\ hsTarget' = [hsTarget EXCEPT ![r] = Least(found)]
                      ELSE /\ hsPc' = [hsPc EXCEPT ![r] = "mkchat"]
                           /\ hsTarget' = hsTarget
                 /\ UNCHANGED <<hsReq, hsStatus, dbOnline, dbMembers, dbMsgs, cwVars, restB>>

\* chat.create resolved: a new DIRECT chat of sender and receiver.
HsMkChat(r) ==
    /\ hsPc[r] = "mkchat"
    /\ FreeChats # {}
    /\ \E ok \in StorageOutcomes :
         /\ faulted' = (faulted \/ ~ok)
         /\ IF ~ok THEN HsReject(r)
            ELSE /\ dbMembers' = [dbMembers EXCEPT ![Least(FreeChats)] =
                                    {hsReq[r].sender, hsReq[r].receiver}]
                 /\ hsTarget' = [hsTarget EXCEPT ![r] = Least(FreeChats)]
                 /\ hsPc' = [hsPc EXCEPT ![r] = "exists"]
                 /\ UNCHANGED <<hsReq, hsStatus, dbOnline, dbMsgs, cwVars, restB>>

\* chat.findUnique resolved: 404 when the target chat does not exist.
HsExists(r) ==
    /\ hsPc[r] = "exists"
    /\ \E ok \in StorageOutcomes :
         /\ faulted' = (faulted \/ ~ok)
         /\ IF ~ok THEN HsReject(r)
            ELSE /\ IF dbMembers[hsTarget[r]] # {}
                      THEN /\ hsPc' = [hsPc EXCEPT ![r] = "create"]
                           /\ hsStatus' = hsStatus
                      ELSE /\ hsPc' = [hsPc EXCEPT ![r] = "done"]
                           /\ hsStatus' = [hsStatus EXCEPT ![r] = 404]
                 /\ UNCHANGED <<hsReq, hsTarget, dbOnline, dbMembers, dbMsgs, cwVars, restB>>

\* message.create resolved: the row exists; chat.update is awaited.
HsCreate(r) ==
    /\ hsPc[r] = "create"
    /\ \E ok \in StorageOutcomes :
         /\ faulted' = (faulted \/ ~ok)
         /\ IF ~ok THEN HsReject(r)
            ELSE /\ dbMsgs' = dbMsgs \cup {SendMsgOf(r)}
                 /\ hsPc' = [hsPc EXCEPT ![r] = "update"]
                 /\ UNCHANGED <<hsReq, hsTarget, hsStatus, dbOnline, dbMembers, cwVars, restB>>

\* chat.update resolved: the new_message envelope goes to the subscribers of
\* the chat (broadcastToChat) and to the receiver (sendToUser); 201.
HsUpdate(r) ==
    /\ hsPc[r] = "update"
    /\ \E ok \in StorageOutcomes :
         /\ faulted' = (faulted \/ ~ok)
         /\ IF ~ok THEN HsReject(r)
            ELSE /\ cwSent' = cwSent \cup MessageToChat(hsTarget[r], r)
                                     \cup MessageToUser(hsReq[r].receiver, r)
                 /\ hsPc' = [hsPc EXCEPT ![r] = "done"]
                 /\ hsStatus' = [hsStatus EXCEPT ![r] = 201]
                 /\ UNCHANGED <<hsReq, hsTarget, dbOnline, dbMembers, dbMsgs, cwPc, cwUser,
                                cwState, userConnections, subscribedChats, cwHist, restB>>

\* The send-message route with the /chatWS connections it fans out to.
SendConns == 1..MaxSendConns

SendNext ==
    \/ \E c \in SendConns, uid \in Users : CwConnect(c, uid)
    \/ \E c \in SendConns : CwOnlineDone(c)
    \/ \E c \in SendConns : CwAutoSubDone(c)
    \/ \E c \in SendConns : CwChatsDone(c)
    \/ \E c \in SendConns : CwClose(c)
    \/ \E c \in SendConns : CwOfflineDone(c)
    \/ \E r \in Reqs, u \in Users, v \in Users, ch \in Chats \cup {0} : HsStart(r, u, v, ch)
    \/ \E r \in Reqs : HsMember(r)
    \/ \E r \in Reqs : HsFind(r)
    \/ \E r \in Reqs : HsMkChat(r)
    \/ \E r \in Reqs : HsExists(r)
    \/ \E r \in Reqs : HsCreate(r)
    \/ \E r \in Reqs : HsUpdate(r)

\* ------------------------------------------------------------------ /chatroom
NoRoomHist == [first |-> FALSE, last |-> FALSE, wroteOnline |-> FALSE,
               pubJoined |-> FALSE, wroteOffline |-> FALSE, pubLeft |-> FALSE]

CrInit ==
    /\ crPc = [c \in CrConns |-> "idle"]
    /\ crUser = [c \in CrConns |-> NoUser]
    /\ crState = [c \in CrConns |-> "NONE"]
    /\ roomKeys = {}
    /\ roomClients = [u \in Users |-> <<>>]
    /\ userActiveChats = [u \in Users |-> 0]
    /\ crSeen = [c \in CrConns |-> {}]
    /\ crHist = [c \in CrConns |-> NoRoomHist]

\* The connections of user u that are OPEN.
CrLiveOf(u) == {c \in CrConns : crUser[c] = u /\ crState[c] = "OPEN"}

\* getAllUsersInfo(): the users its rows mark isOnline, read from the store
\* by prisma.user.findMany; a rejection is caught and [] returned.
getAllUsersInfo(ok) == IF ok THEN {u \in Users : dbOnline[u]} ELSE {}

\* userConnections.get(userId)!.length === 1
IsOnlyConnection(u) == Len(roomClients[u]) = 1

\* broadcastToAll(message, excludeUserId): the sockets ws.send is called on.
RoomRecipients(exclude) ==
    {c \in CrConns : /\ crUser[c] \in roomKeys \ {exclude}
                     /\ c \in Range(roomClients[crUser[c]])
                     /\ crState[c] = "OPEN"}

\* app.ws('/chatroom'): without a userId the socket is closed with 1008.
\* Otherwise the socket is pushed to the list of its user (made on demand)
\* and, if it is the only one, the isOnline=true update is awaited; if not,
\* getAllUsersInfo is.
CrConnect(c, uid) ==
    /\ crPc[c] = "idle"
    /\ \A b \in CrConns : b < c => crPc[b] # "idle"
    /\ crUser' = [crUser EXCEPT ![c] = uid]
    /\ IF uid = NoUser
         THEN /\ crState' = [crState EXCEPT ![c] = "CLOSED"]
              /\ crPc' = [crPc EXCEPT ![c] = "closed"]
              /\ UNCHANGED <<roomKeys, roomClients, crHist>>
         ELSE /\ crState' = [crState EXCEPT ![c] = "OPEN"]
              /\ roomKeys' = roomKeys \cup {uid}
              /\ roomClients' = [roomClients EXCEPT ![uid] = Append(@, c)]
              /\ crHist' = [crHist EXCEPT ![c].first = (CrLiveOf(uid) = {})]
              /\ crPc' = [crPc EXCEPT ![c] =
                            IF Len(roomClients[uid]) = 0 THEN "wOnline" ELSE "wUsers"]
    /\ UNCHANGED <<userActiveChats, crSeen, dbVars, restC>>

\* The isOnline=true update resolved; getAllUsersInfo is awaited.  A
\* rejection is caught nowhere: the handler ends, no listener is registered.
CrOnlineDone(c) ==
    /\ crPc[c] = "wOnline"
    /\ \E ok \in StorageOutcomes :
         /\ faulted' = (faulted \/ ~ok)
         /\ IF ok
              THEN /\ dbOnline' = SetOnline(crUser[c], TRUE)
                   /\ crHist' = [crHist EXCEPT ![c].wroteOnline = TRUE]
                   /\ crPc' = [crPc EXCEPT ![c] = "wUsers"]
              ELSE /\ UNCHANGED <<dbOnline, crHist>>
                   /\ crPc' = [crPc EXCEPT ![c] = "dead"]
    /\ UNCHANGED <<crUser, crState, roomKeys, roomClients, userActiveChats, crSeen,
                   dbMembers, dbMsgs, restC>>

\* getAllUsersInfo resolved (it catches its own errors): its result
\* getAllUsersInfo(ok) is sent to the socket, getUserChats is awaited.
CrUsersDone(c) ==
    /\ crPc[c] = "wUsers"
    /\ \E ok \in StorageOutcomes : faulted' = (faulted \/ ~ok)
    /\ crPc' = [crPc EXCEPT ![c] = "wChats"]
    /\ UNCHANGED <<crUser, crState, roomKeys, roomClients, userActiveChats, crSeen,
                   crHist, dbOnline, dbMembers, dbMsgs, restC>>

\* getUserChats resolved (it catches its own errors): the chats are sent to
\* the socket; if the socket is now the only one of its user, user_joined and
\* the user list are broadcast to the other users; the 'message', 'close'
\* and 'error' listeners are registered.
CrChatsDone(c) ==
    /\ crPc[c] = "wChats"
    /\ crHist' = [crHist EXCEPT ![c].pubJoined = IsOnlyConnection(crUser[c])]
    /\ crSeen' = [d \in CrConns |->
                    IF IsOnlyConnection(crUser[c]) /\ d \in RoomRecipients(crUser[c])
                      THEN crSeen[d] \cup {crUser[c]} ELSE crSeen[d]]
    /\ crPc' = [crPc EXCEPT ![c] = "ready"]
    /\ UNCHANGED <<crUser, crState, roomKeys, roomClients, userActiveChats, dbVars, restC>>

\* Mutant of CrClose: the listener leaves the emptied list in the map.
CrCloseKeepsEntry(c) ==
    /\ crState[c] = "OPEN"
    /\ crState' = [crState EXCEPT ![c] = "CLOSED"]
    /\ crHist' = [crHist EXCEPT ![c].last = (CrLiveOf(crUser[c]) = {c})]
    /\ IF crPc[c] = "ready" /\ crUser[c] \in roomKeys
         THEN LET rest == Splice(roomClients[crUser[c]], c) IN
              /\ roomClients' = [roomClients EXCEPT ![crUser[c]] = rest]
              /\ UNCHANGED roomKeys
              /\ IF Len(rest) = 0
                   THEN /\ userActiveChats' = [userActiveChats EXCEPT ![crUser[c]] = 0]
                        /\ crPc' = [crPc EXCEPT ![c] = "wOffline"]
                   ELSE /\ UNCHANGED userActiveChats
                        /\ crPc' = [crPc EXCEPT ![c] = "closed"]
         ELSE /\ crPc' = [crPc EXCEPT ![c] = IF crPc[c] = "ready" THEN "closed" ELSE @]
              /\ UNCHANGED <<roomKeys, roomClients, userActiveChats>>
    /\ UNCHANGED <<crUser, crSeen, dbVars, restC>>

\* The transport closes.  'close' reaches a listener only if the connection
\* handler has registered it; the listener removes the socket from the list
\* of its user and, when the list is empty, deletes the entry of the user
\* and awaits the isOnline=false update.
CrClose(c) ==
    /\ crState[c] = "OPEN"
    /\ crState' = [crState EXCEPT ![c] = "CLOSED"]
    /\ crHist' = [crHist EXCEPT ![c].last = (CrLiveOf(crUser[c]) = {c})]
    /\ IF crPc[c] = "ready" /\ crUser[c] \in roomKeys
         THEN LET rest == Splice(roomClients[crUser[c]], c) IN
              /\ roomClients' = [roomClients EXCEPT ![crUser[c]] = rest]
              /\ IF Len(rest) = 0
                   THEN /\ roomKeys' = roomKeys \ {crUser[c]}
                        /\ userActiveChats' = [userActiveChats EXCEPT ![crUser[c]] = 0]
                        /\ crPc' = [crPc EXCEPT ![c] = "wOffline"]
                   ELSE /\ UNCHANGED <<roomKeys, userActiveChats>>
                        /\ crPc' = [crPc EXCEPT ![c] = "closed"]
         ELSE /\ crPc' = [crPc EXCEPT ![c] = IF crPc[c] = "ready" THEN "closed" ELSE @]
              /\ UNCHANGED <<roomKeys, roomClients, userActiveChats>>
    /\ UNCHANGED <<crUser, crSeen, dbVars, restC>>

\* The isOnline=false update of the close listener resolved; getAllUsersInfo
\* is awaited.  A rejection is caught nowhere: the listener ends.
CrOfflineDone(c) ==
    /\ crPc[c] = "wOffline"
    /\ \E ok \in StorageOutcomes :
         /\ faulted' = (faulted \/ ~ok)
         /\ IF ok
              THEN /\ dbOnline' = SetOnline(crUser[c], FALSE)
                   /\ crHist' = [crHist EXCEPT ![c].wroteOffline = TRUE]
                   /\ crPc' = [crPc EXCEPT ![c] = "wLeft"]
              ELSE /\ UNCHANGED <<dbOnline, crHist>>
                   /\ crPc' = [crPc EXCEPT ![c] = "closed"]
    /\ UNCHANGED <<crUser, crState, roomKeys, roomClients, userActiveChats, crSeen,
                   dbMembers, dbMsgs, restC>>

\* getAllUsersInfo of the close listener resolved: user_left and the user
\* list are broadcast to the other users.
CrLeftDone(c) ==
    /\ crPc[c] = "wLeft"
    /\ crHist' = [crHist EXCEPT ![c].pubLeft = TRUE]
    /\ crPc' = [crPc EXCEPT ![c] = "closed"]
    /\ UNCHANGED <<crUser, crState, roomKeys, roomClients, userActiveChats, crSeen, dbVars,
                   restC>>

\* /chatroom alone.
CrNext ==
    \/ \E c \in CrConns, uid \in RoomUsers \cup {NoUser} : CrConnect(c, uid)
    \/ \E c \in CrConns : CrOnlineDone(c)
    \/ \E c \in CrConns : CrUsersDone(c)
    \/ \E c \in CrConns : CrChatsDone(c)
    \/ \E c \in CrConns : CrClose(c)
    \/ \E c \in CrConns : CrOfflineDone(c)
    \/ \E c \in CrConns : CrLeftDone(c)

\* --------------------------------------------- broadcastToChat, call by call
NoCall == [chat |-> 0, bad |-> {}, got |-> {}, count |-> 0, escaped |-> FALSE]

NoRoomCall == [user |-> NoUser, bad |-> {}, got |-> {}, escaped |-> FALSE]

BcInit == bcCall = NoCall /\ crCall = NoRoomCall

\* Mutant of BroadcastStep: the send is not inside a try, a throw leaves
\* the forEach.
BroadcastStepNoCatch(acc, c, ch, bad) ==
    IF ch \in subscribedChats[c] /\ cwState[c] = "OPEN"
      THEN IF c \in bad
             THEN [acc EXCEPT !.escaped = TRUE]
             ELSE [acc EXCEPT !.got = @ \cup {c}, !.count = @ + 1]
      ELSE acc

\* Mutant of BroadcastStep: subscriberCount++ stands before the send.
BroadcastStepCountFirst(acc, c, ch, bad) ==
    IF ch \in subscribedChats[c] /\ cwState[c] = "OPEN"
      THEN IF c \in bad
             THEN [acc EXCEPT !.count = @ + 1]
             ELSE [acc EXCEPT !.got = @ \cup {c}, !.count = @ + 1]
      ELSE acc

\* The body of the forEach of broadcastToChat for connection c: a subscribed
\* connection with an OPEN transport is sent the envelope and counted; a
\* send that throws (c in bad) is caught and logged, and not counted.
BroadcastStep(acc, c, ch, bad) ==
    IF ch \in subscribedChats[c] /\ cwState[c] = "OPEN"
      THEN IF c \in bad
             THEN acc
             ELSE [acc EXCEPT !.got = @ \cup {c}, !.count = @ + 1]
      ELSE acc

\* userConnections.forEach from index i on; an exception that leaves the
\* callback ends the loop.
RECURSIVE BroadcastFrom(_, _, _, _)
BroadcastFrom(i, acc, ch, bad) ==
    IF i > Len(userConnections) \/ acc.escaped
      THEN acc
      ELSE BroadcastFrom(i + 1, BroadcastStep(acc, userConnections[i], ch, bad), ch, bad)

\* broadcastToChat(chatId, message): what the call did and returned, when
\* ws.send throws on the connections of bad.
BroadcastToChat(ch, bad) ==
    BroadcastFrom(1, [chat |-> ch, bad |-> bad, got |-> {}, count |-> 0,
                      escaped |-> FALSE], ch, bad)

\* A caller invokes broadcastToChat(ch, message).
CwBroadcast(ch, bad) ==
    /\ bad \subseteq Range(userConnections)
    /\ bcCall' = BroadcastToChat(ch, bad)
    /\ UNCHANGED <<crCall, dbVars, restD>>

\* /chatWS with calls of broadcastToChat.
FanConns == 1..MaxFanConns

FanNext ==
    \/ \E c \in FanConns, uid \in Users \cup {NoUser} : CwConnect(c, uid)
    \/ \E c \in FanConns : CwOnlineDone(c)
    \/ \E c \in FanConns : CwAutoSubDone(c)
    \/ \E c \in FanConns : CwChatsDone(c)
    \/ \E c \in FanConns : CwClose(c)
    \/ \E c \in FanConns : CwOfflineDone(c)
    \/ \E ch \in Chats, bad \in SUBSET FanConns : CwBroadcast(ch, bad)

\* ------------------------------------------------------------------ /usersWS
NoUwMsg == [conn |-> 0, kind |-> "none", sender |-> NoUser, receiver |-> NoUser]

UwInit ==
    /\ uwPc = [c \in UwConns |-> "idle"]
    /\ uwUser = [c \in UwConns |-> NoUser]
    /\ uwState = [c \in UwConns |-> "NONE"]
    /\ uwConnections = <<>>
    /\ uwMsgPc = [m \in UwMsgs |-> "idle"]
    /\ uwMsg = [m \in UwMsgs |-> NoUwMsg]
    /\ uwChat = [m \in UwMsgs |-> 0]
    /\ uwFailed = [m \in UwMsgs |-> "no"]
    /\ uwSent = {}

\* sendToClient(ws, message): the envelope is sent if the transport is OPEN.
UwToClient(c, kind, m) ==
    IF uwState[c] = "OPEN" THEN {[to |-> c, kind |-> kind, msg |-> m]} ELSE {}

\* userConnections.find(conn => conn.userId === userId): the first
\* connection of the user in push order (0 = undefined).
UwFind(u) ==
    LET idx == {i \in 1..Len(uwConnections) : uwUser[uwConnections[i]] = u} IN
    IF idx = {} THEN 0 ELSE uwConnections[CHOOSE i \in idx : \A j \in idx : i <= j]

\* sendToUser(userId, message): the connections ws.send is called on.
UwUserRecipients(u) ==
    IF UwFind(u) # 0 /\ uwState[UwFind(u)] = "OPEN" THEN {UwFind(u)} ELSE {}

\* The OPEN connections of user u in the registry.
UwLiveOf(u) == {c \in Range(uwConnections) : uwUser[c] = u /\ uwState[c] = "OPEN"}

\* prisma.chat.findFirst({ members: { every: { userId: { in: [a, b] } } } })
UwDirectChats(a, b) == {ch \in Chats : dbMembers[ch] # {} /\ dbMembers[ch] \subseteq {a, b}}

\* The Message row handleSendMessage of /usersWS creates.
UwMsgOf(m) == [id |-> m, chat |-> uwChat[m], sender |-> uwMsg[m].sender, kind |-> "usersWS"]

\* app.ws('/usersWS'): the userId cookie is read and the connection pushed
\* to userConnections; with a userId the isOnline=true update is awaited,
\* without one getAllUsers.
UwConnect(c, uid) ==
    /\ uwPc[c] = "idle"
    /\ \A b \in UwConns : b < c => uwPc[b] # "idle"
    /\ uwUser' = [uwUser EXCEPT ![c] = uid]
    /\ uwState' = [uwState EXCEPT ![c] = "OPEN"]
    /\ uwConnections' = Append(uwConnections, c)
    /\ uwPc' = [uwPc EXCEPT ![c] = IF uid = NoUser THEN "wUsers" ELSE "wOnline"]
    /\ UNCHANGED <<uwMsgPc, uwMsg, uwChat, uwFailed, uwSent, dbVars, restU>>

\* The isOnline=true update resolved: post.findMany is awaited.  Rejected:
\* the catch logs and getAllUsers is awaited.
UwOnlineDone(c) ==
    /\ uwPc[c] = "wOnline"
    /\ \E ok \in StorageOutcomes :
         /\ faulted' = (faulted \/ ~ok)
         /\ dbOnline' = IF ok THEN SetOnline(uwUser[c], TRUE) ELSE dbOnline
         /\ uwPc' = [uwPc EXCEPT ![c] = IF ok THEN "wPosts" ELSE "wUsers"]
    /\ UNCHANGED <<uwUser, uwState, uwConnections, uwMsgPc, uwMsg, uwChat, uwFailed, uwSent,
                   dbMembers, dbMsgs, restU>>

\* post.findMany resolved: the posts go to every connection and user_online
\* to the connections of the other users (rejected: caught); getAllUsers is
\* awaited.
UwPostsDone(c) ==
    /\ uwPc[c] = "wPosts"
    /\ \E ok \in StorageOutcomes : faulted' = (faulted \/ ~ok)
    /\ uwPc' = [uwPc EXCEPT ![c] = "wUsers"]
    /\ UNCHANGED <<uwUser, uwState, uwConnections, uwMsgPc, uwMsg, uwChat, uwFailed, uwSent,
                   dbOnline, dbMembers, dbMsgs, restU>>

\* getAllUsers resolved (it catches its own errors): users_list is sent to
\* the connection and the 'message', 'close' and 'error' listeners are
\* registered.
UwUsersDone(c) ==
    /\ uwPc[c] = "wUsers"
    /\ uwPc' = [uwPc EXCEPT ![c] = "ready"]
    /\ UNCHANGED <<uwUser, uwState, uwConnections, uwMsgPc, uwMsg, uwChat, uwFailed, uwSent,
                   dbVars, restU>>

\* The transport closes.  'close' reaches a listener only if the connection
\* handler has registered it; the listener removes the connection from
\* userConnections and, for an identified connection, awaits the
\* isOnline=false update.
UwClose(c) ==
    /\ uwState[c] = "OPEN"
    /\ uwState' = [uwState EXCEPT ![c] = "CLOSED"]
    /\ IF uwPc[c] = "ready"
         THEN /\ uwConnections' = Splice(uwConnections, c)
              /\ uwPc' = [uwPc EXCEPT ![c] = IF uwUser[c] # NoUser THEN "wOffline"
                                                                   ELSE "closed"]
         ELSE UNCHANGED <<uwConnections, uwPc>>
    /\ UNCHANGED <<uwUser, uwMsgPc, uwMsg, uwChat, uwFailed, uwSent, dbVars, restU>>

\* The isOnline=false update of the close listener resolved: user_offline
\* goes to the connections of the other users (rejected: caught).
UwOfflineDone(c) ==
    /\ uwPc[c] = "wOffline"
    /\ \E ok \in StorageOutcomes :
         /\ faulted' = (faulted \/ ~ok)
         /\ dbOnline' = IF ok THEN SetOnline(uwUser[c], FALSE) ELSE dbOnline
    /\ uwPc' = [uwPc EXCEPT ![c] = "closed"]
    /\ UNCHANGED <<uwUser, uwState, uwConnections, uwMsgPc, uwMsg, uwChat, uwFailed, uwSent,
                   dbMembers, dbMsgs, restU>>

\* ws.on('message') of connection c: a payload that JSON.parse rejects
\* ("bad") is answered with an error envelope by the catch; an unknown type
\* by the default branch of handleUserMessage; send_message without its
\* fields ("empty") by handleSendMessage; a complete send_message awaits
\* the findFirst of getOrCreateDirectChat.
UwRecv(m, c, kind, u, v) ==
    /\ uwMsgPc[m] = "idle"
    /\ \A q \in UwMsgs : q < m => uwMsgPc[q] # "idle"
    /\ uwPc[c] = "ready" /\ uwState[c] = "OPEN"
    /\ kind = "send" \/ (u = NoUser /\ v = NoUser)
    /\ kind = "send" => (u # NoUser /\ v # NoUser)
    /\ uwMsg' = [uwMsg EXCEPT ![m] = [conn |-> c, kind |-> kind, sender |-> u, receiver |-> v]]
    /\ IF kind = "send"
         THEN /\ uwMsgPc' = [uwMsgPc EXCEPT ![m] = "wChat"]
              /\ uwSent' = uwSent
         ELSE /\ uwMsgPc' = [uwMsgPc EXCEPT ![m] = "done"]
              /\ uwSent' = uwSent \cup UwToClient(c, "error", m)
    /\ UNCHANGED <<uwPc, uwUser, uwState, uwConnections, uwChat, uwFailed, dbVars, restU>>

\* The catch of handleSendMessage: an error envelope goes to the sending
\* connection.
UwCatch(m, what) ==
    /\ uwMsgPc' = [uwMsgPc EXCEPT ![m] = "done"]
    /\ uwFailed' = [uwFailed EXCEPT ![m] = what]
    /\ uwSent' = uwSent \cup UwToClient(uwMsg[m].conn, "error", m)
    /\ UNCHANGED <<uwChat, dbOnline, dbMembers, dbMsgs>>

\* chat.findFirst of getOrCreateDirectChat resolved: the chat found is used;
\* without one chat.create is awaited.
UwChatDone(m) ==
    /\ uwMsgPc[m] = "wChat"
    /\ \E ok \in StorageOutcomes :
         LET found == UwDirectChats(uwMsg[m].sender, uwMsg[m].receiver) IN
         /\ faulted' = (faulted \/ ~ok)
         /\ IF ~ok THEN UwCatch(m, "chat")
            ELSE IF found # {}
              THEN /\ \E ch \in found : uwChat' = [uwChat EXCEPT ![m] = ch]
                   /\ uwMsgPc' = [uwMsgPc EXCEPT ![m] = "wCreate"]
                   /\ UNCHANGED <<uwFailed, uwSent, dbOnline, dbMembers, dbMsgs>>
              ELSE /\ uwMsgPc' = [uwMsgPc EXCEPT ![m] = "wMkChat"]
                   /\ UNCHANGED <<uwChat, uwFailed, uwSent, dbOnline, dbMembers, dbMsgs>>
    /\ UNCHANGED <<uwPc, uwUser, uwState, uwConnections, uwMsg, restU>>

\* chat.create of getOrCreateDirectChat resolved: a new DIRECT chat of the
\* two users.
UwMkChatDone(m) ==
    /\ uwMsgPc[m] = "wMkChat"
    /\ FreeChats # {}
    /\ \E ok \in StorageOutcomes :
         /\ faulted' = (faulted \/ ~ok)
         /\ IF ~ok THEN UwCatch(m, "chat")
            ELSE /\ dbMembers' = [dbMembers EXCEPT ![Least(FreeChats)] =
                                    {uwMsg[m].sender, uwMsg[m].receiver}]
                 /\ uwChat' = [uwChat EXCEPT ![m] = Least(FreeChats)]
                 /\ uwMsgPc' = [uwMsgPc EXCEPT ![m] = "wCreate"]
                 /\ UNCHANGED <<uwFailed, uwSent, dbOnline, dbMsgs>>
    /\ UNCHANGED <<uwPc, uwUser, uwState, uwConnections, uwMsg, restU>>

\* Mutant of UwCreateDone: a rejected message.create is not thrown, the
\* handler goes on to chat.update and sendToUser.
UwCreateDoneGoesOn(m) ==
    /\ uwMsgPc[m] = "wCreate"
    /\ \E ok \in StorageOutcomes :
         /\ faulted' = (faulted \/ ~ok)
         /\ dbMsgs' = IF ok THEN dbMsgs \cup {UwMsgOf(m)} ELSE dbMsgs
         /\ uwMsgPc' = [uwMsgPc EXCEPT ![m] = "wUpdate"]
         /\ UNCHANGED <<uwChat, uwFailed, uwSent, dbOnline, dbMembers>>
    /\ UNCHANGED <<uwPc, uwUser, uwState, uwConnections, uwMsg, restU>>

\* message.create resolved: the row exists and chat.update is awaited.
UwCreateDone(m) ==
    /\ uwMsgPc[m] = "wCreate"
    /\ \E ok \in StorageOutcomes :
         /\ faulted' = (faulted \/ ~ok)
         /\ IF ~ok THEN UwCatch(m, "create")
            ELSE /\ dbMsgs' = dbMsgs \cup {UwMsgOf(m)}
                 /\ uwMsgPc' = [uwMsgPc EXCEPT ![m] = "wUpdate"]
                 /\ UNCHANGED <<uwChat, uwFailed, uwSent, dbOnline, dbMembers>>
    /\ UNCHANGED <<uwPc, uwUser, uwState, uwConnections, uwMsg, restU>>

\* chat.update resolved: new_message goes to the receiver by sendToUser.
UwUpdateDone(m) ==
    /\ uwMsgPc[m] = "wUpdate"
    /\ \E ok \in StorageOutcomes :
         /\ faulted' = (faulted \/ ~ok)
         /\ IF ~ok THEN UwCatch(m, "update")
            ELSE /\ uwSent' = uwSent \cup
                       {[to |-> c, kind |-> "new_message", msg |-> m] :
                            c \in UwUserRecipients(uwMsg[m].receiver)}
                 /\ uwMsgPc' = [uwMsgPc EXCEPT ![m] = "sent"]
                 /\ UNCHANGED <<uwChat, uwFailed, dbOnline, dbMembers, dbMsgs>>
    /\ UNCHANGED <<uwPc, uwUser, uwState, uwConnections, uwMsg, restU>>

\* /usersWS alone.
UwNext ==
    \/ \E c \in UwConns, uid \in UwUsers \cup {NoUser} : UwConnect(c, uid)
    \/ \E c \in UwConns : UwOnlineDone(c)
    \/ \E c \in UwConns : UwPostsDone(c)
    \/ \E c \in UwConns : UwUsersDone(c)
    \/ \E c \in UwConns : UwClose(c)
    \/ \E c \in UwConns : UwOfflineDone(c)
    \/ \E m \in UwMsgs, c \in UwConns, kind \in {"bad", "unknown", "empty", "send"},
          u \in UwUsers \cup {NoUser}, v \in UwUsers \cup {NoUser} : UwRecv(m, c, kind, u, v)
    \/ \E m \in UwMsgs : UwChatDone(m)
    \/ \E m \in UwMsgs : UwMkChatDone(m)
    \/ \E m \in UwMsgs : UwCreateDone(m)
    \/ \E m \in UwMsgs : UwUpdateDone(m)

\* --------------------------------------------------- /chatroom, 'message'
NoRoomMsg == [conn |-> 0, kind |-> "none", receiver |-> NoUser]

CrMsgInit ==
    /\ crMsgPc = [m \in CrMsgs |-> "idle"]
    /\ crMsg = [m \in CrMsgs |-> NoRoomMsg]
    /\ crChat = [m \in CrMsgs |-> 0]
    /\ crFailed = [m \in CrMsgs |-> "no"]
    /\ crOut = {}
    /\ crStored = <<>>
    /\ crOrder = [c \in CrConns |-> <<>>]

\* The user of the connection a payload came in on (senderId).
CrSender(m) == crUser[crMsg[m].conn]

\* prisma.chat.findFirst({ members: { every: { userId: { in: [a, b] } } } })
PrivateChats(a, b) == {ch \in Chats : dbMembers[ch] # {} /\ dbMembers[ch] \subseteq {a, b}}

\* sendToUser(userId, message) / the forEach over userConnections.get(id):
\* the sockets ws.send is called on.
RoomUserRecipients(u) ==
    IF u \in roomKeys
      THEN {c \in Range(roomClients[u]) : crState[c] = "OPEN"}
      ELSE {}

\* receiverConnection && receiverConnection.length > 0
RoomHasConnections(u) == u \in roomKeys /\ Len(roomClients[u]) > 0

\* The Message row handlePrivateMessage creates.
RoomMsgOf(m) == [id |-> m, chat |-> crChat[m], sender |-> CrSender(m), kind |-> "chatroom"]

\* ws.on('message') of socket c: a payload JSON.parse rejects ("bad") is
\* logged by the catch; an unknown type is logged by the default branch of
\* handleMessage; a private_message without receiverId or a join_chat
\* without targetUserId is logged; one with it awaits the findFirst of
\* getOrCreatePrivateChat.
CrRecv(m, c, kind, v) ==
    /\ crMsgPc[m] = "idle"
    /\ \A q \in CrMsgs : q < m => crMsgPc[q] # "idle"
    /\ crPc[c] = "ready" /\ crState[c] = "OPEN"
    /\ kind \notin {"private", "join"} => v = NoUser
    /\ v # crUser[c]
    /\ crMsg' = [crMsg EXCEPT ![m] = [conn |-> c, kind |-> kind, receiver |-> v]]
    /\ crMsgPc' = [crMsgPc EXCEPT ![m] =
                     IF kind \in {"private", "join"} /\ v # NoUser THEN "wChat" ELSE "done"]
    /\ UNCHANGED <<crVars, crChat, crFailed, crOut, crStored, crOrder, dbVars, restM>>

\* The catch of handlePrivateMessage: the error is logged.
CrCatch(m, what) ==
    /\ crMsgPc' = [crMsgPc EXCEPT ![m] = "done"]
    /\ crFailed' = [crFailed EXCEPT ![m] = what]
    /\ UNCHANGED <<crChat, crOut, crStored, crOrder, dbOnline, dbMembers, dbMsgs,
                   userActiveChats>>

\* getOrCreatePrivateChat returned chat ch.  handlePrivateMessage awaits
\* message.create; handleJoinChat sets userActiveChats of the sender and
\* passes the history to ws.send of the socket the payload came in on.
CrChatResolved(m, ch) ==
    /\ crChat' = [crChat EXCEPT ![m] = ch]
    /\ IF crMsg[m].kind = "join"
         THEN /\ userActiveChats' = [userActiveChats EXCEPT ![CrSender(m)] = ch]
              /\ crOut' = crOut \cup {[to |-> crMsg[m].conn, kind |-> "history", msg |-> m]}
              /\ crMsgPc' = [crMsgPc EXCEPT ![m] = "joined"]
         ELSE /\ crMsgPc' = [crMsgPc EXCEPT ![m] = "wCreate"]
              /\ UNCHANGED <<userActiveChats, crOut>>

\* chat.findFirst of getOrCreatePrivateChat resolved: the chat found is
\* used; without one chat.create is awaited.
CrChatDone(m) ==
    /\ crMsgPc[m] = "wChat"
    /\ \E ok \in StorageOutcomes :
         LET found == PrivateChats(CrSender(m), crMsg[m].receiver) IN
         /\ faulted' = (faulted \/ ~ok)
         /\ IF ~ok THEN CrCatch(m, "chat")
            ELSE IF found # {}
              THEN /\ \E ch \in found : CrChatResolved(m, ch)
                   /\ UNCHANGED <<crFailed, crStored, crOrder, dbOnline, dbMembers, dbMsgs>>
              ELSE /\ crMsgPc' = [crMsgPc EXCEPT ![m] = "wMkChat"]
                   /\ UNCHANGED <<crChat, crFailed, crOut, crStored, crOrder, dbOnline,
                                  dbMembers, dbMsgs, userActiveChats>>
    /\ UNCHANGED <<crPc, crUser, crState, roomKeys, roomClients, crSeen, crHist, crMsg, restM>>

\* chat.create of getOrCreatePrivateChat resolved: a new DIRECT chat of the
\* two users.
CrMkChatDone(m) ==
    /\ crMsgPc[m] = "wMkChat"
    /\ FreeChats # {}
    /\ \E ok \in StorageOutcomes :
         /\ faulted' = (faulted \/ ~ok)
         /\ IF ~ok THEN CrCatch(m, "chat")
            ELSE /\ dbMembers' = [dbMembers EXCEPT ![Least(FreeChats)] =
                                    {CrSender(m), crMsg[m].receiver}]
                 /\ CrChatResolved(m, Least(FreeChats))
                 /\ UNCHANGED <<crFailed, crStored, crOrder, dbOnline, dbMsgs>>
    /\ UNCHANGED <<crPc, crUser, crState, roomKeys, roomClients, crSeen, crHist, crMsg, restM>>

\* message.create resolved: the row exists and chat.update is awaited.
CrCreateDone(m) ==
    /\ crMsgPc[m] = "wCreate"
    /\ \E ok \in StorageOutcomes :
         /\ faulted' = (faulted \/ ~ok)
         /\ IF ~ok THEN CrCatch(m, "create")
            ELSE /\ dbMsgs' = dbMsgs \cup {RoomMsgOf(m)}
                 /\ crStored' = Append(crStored, m)
                 /\ crMsgPc' = [crMsgPc EXCEPT ![m] = "wUpdate"]
                 /\ UNCHANGED <<crChat, crFailed, crOut, crOrder, dbOnline, dbMembers>>
    /\ UNCHANGED <<crVars, crMsg, restM>>

\* The confirmation sendToUser(senderId, ...) of handlePrivateMessage.
CrConfirm(m) == {[to |-> c, kind |-> "confirm", msg |-> m] : c \in RoomUserRecipients(CrSender(m))}

\* chat.update resolved: if the receiver has an entry with connections,
\* private_message is sent to each OPEN one and the isRead update is
\* awaited; if not, the confirmation goes to the sender.
CrUpdateDone(m) ==
    /\ crMsgPc[m] = "wUpdate"
    /\ \E ok \in StorageOutcomes :
         /\ faulted' = (faulted \/ ~ok)
         /\ IF ~ok THEN CrCatch(m, "update")
            ELSE IF RoomHasConnections(crMsg[m].receiver)
              THEN /\ crOut' = crOut \cup
                         {[to |-> c, kind |-> "private_message", msg |-> m] :
                              c \in RoomUserRecipients(crMsg[m].receiver)}
                   /\ crOrder' = [c \in CrConns |->
                                    IF c \in RoomUserRecipients(crMsg[m].receiver)
                                      THEN Append(crOrder[c], m) ELSE crOrder[c]]
                   /\ crMsgPc' = [crMsgPc EXCEPT ![m] = "wRead"]
                   /\ UNCHANGED <<crChat, crFailed, crStored, dbOnline, dbMembers, dbMsgs>>
              ELSE /\ crOut' = crOut \cup CrConfirm(m)
                   /\ crMsgPc' = [crMsgPc EXCEPT ![m] = "sent"]
                   /\ UNCHANGED <<crChat, crFailed, crStored, crOrder, dbOnline, dbMembers,
                                  dbMsgs>>
    /\ UNCHANGED <<crVars, crMsg, restM>>

\* The isRead update resolved: the confirmation goes to the sender.
CrReadDone(m) ==
    /\ crMsgPc[m] = "wRead"
    /\ \E ok \in StorageOutcomes :
         /\ faulted' = (faulted \/ ~ok)
         /\ IF ~ok THEN CrCatch(m, "read")
            ELSE /\ crOut' = crOut \cup CrConfirm(m)
                 /\ crMsgPc' = [crMsgPc EXCEPT ![m] = "sent"]
                 /\ UNCHANGED <<crChat, crFailed, crStored, crOrder, dbOnline, dbMembers,
                                dbMsgs>>
    /\ UNCHANGED <<crVars, crMsg, restM>>

\* /chatroom with the payloads its sockets send.
RoomMsgConns == 1..MaxRoomMsgConns

RoomMsgNext ==
    \/ \E c \in RoomMsgConns, uid \in RoomUsers \cup {NoUser} : CrConnect(c, uid)
    \/ \E c \in RoomMsgConns : CrOnlineDone(c)
    \/ \E c \in RoomMsgConns : CrUsersDone(c)
    \/ \E c \in RoomMsgConns : CrChatsDone(c)
    \/ \E c \in RoomMsgConns : CrClose(c)
    \/ \E c \in RoomMsgConns : CrOfflineDone(c)
    \/ \E c \in RoomMsgConns : CrLeftDone(c)
    \/ \E m \in CrMsgs, c \in RoomMsgConns, kind \in {"bad", "unknown", "private"},
          v \in Users \cup {NoUser} : CrRecv(m, c, kind, v)
    \/ \E m \in CrMsgs : CrChatDone(m)
    \/ \E m \in CrMsgs : CrMkChatDone(m)
    \/ \E m \in CrMsgs : CrCreateDone(m)
    \/ \E m \in CrMsgs : CrUpdateDone(m)
    \/ \E m \in CrMsgs : CrReadDone(m)

\* The body of the forEach of sendToUser for socket c: an OPEN socket is
\* sent the message; nothing catches a send that throws (c in bad).
RoomSendStep(acc, c, bad) ==
    IF crState[c] = "OPEN"
      THEN IF c \in bad
             THEN [acc EXCEPT !.escaped = TRUE]
             ELSE [acc EXCEPT !.got = @ \cup {c}]
      ELSE acc

\* clients.forEach from index i on; an exception that leaves the callback
\* ends the loop.
RECURSIVE RoomSendFrom(_, _, _, _)
RoomSendFrom(i, acc, q, bad) ==
    IF i > Len(q) \/ acc.escaped
      THEN acc
      ELSE RoomSendFrom(i + 1, RoomSendStep(acc, q[i], bad), q, bad)

\* sendToUser(userId, message) of /chatroom: what the call did when ws.send
\* throws on the sockets of bad.
sendToUser(u, bad) ==
    RoomSendFrom(1, [user |-> u, bad |-> bad, got |-> {}, escaped |-> FALSE],
                 IF u \in roomKeys THEN roomClients[u] ELSE <<>>, bad)

\* ws.on('message') of socket c with a typing payload for receiverId v:
\* handleTypingIndicator calls sendToUser(v, ...); an exception ends in the
\* catch of the listener, which logs it.
CrTyping(c, v, bad) ==
    /\ crPc[c] = "ready" /\ crState[c] = "OPEN"
    /\ bad \subseteq RoomUserRecipients(v)
    /\ crCall' = sendToUser(v, bad)
    /\ UNCHANGED <<bcCall, dbVars, restD>>

\* /chatroom with the typing payloads its sockets send.
RoomFanNext ==
    \/ \E c \in RoomMsgConns, uid \in RoomUsers \cup {NoUser} : CrConnect(c, uid)
    \/ \E c \in RoomMsgConns : CrOnlineDone(c)
    \/ \E c \in RoomMsgConns : CrUsersDone(c)
    \/ \E c \in RoomMsgConns : CrChatsDone(c)
    \/ \E c \in RoomMsgConns : CrClose(c)
    \/ \E c \in RoomMsgConns : CrOfflineDone(c)
    \/ \E c \in RoomMsgConns : CrLeftDone(c)
    \/ \E c \in RoomMsgConns, v \in RoomUsers, bad \in SUBSET RoomMsgConns : CrTyping(c, v, bad)

\* /chatroom with the join_chat payloads its sockets send.
JoinMsgs == 1..MaxJoinMsgs

RoomJoinNext ==
    \/ \E c \in RoomMsgConns, uid \in RoomUsers \cup {NoUser} : CrConnect(c, uid)
    \/ \E c \in RoomMsgConns : CrOnlineDone(c)
    \/ \E c \in RoomMsgConns : CrUsersDone(c)
    \/ \E c \in RoomMsgConns : CrChatsDone(c)
    \/ \E c \in RoomMsgConns : CrClose(c)
    \/ \E c \in RoomMsgConns : CrOfflineDone(c)
    \/ \E c \in RoomMsgConns : CrLeftDone(c)
    \/ \E m \in JoinMsgs, c \in RoomMsgConns, v \in Users : CrRecv(m, c, "join", v)
    \/ \E m \in JoinMsgs : CrChatDone(m)
    \/ \E m \in JoinMsgs : CrMkChatDone(m)

\* ----------------------------------------------------------------- /chat
ChConns == 1..MaxChatConns
ChMsgs == 1..MaxChatMsgs

ChInit ==
    /\ chPc = [c \in ChConns |-> "idle"]
    /\ chState = [c \in ChConns |-> "NONE"]
    /\ clients = {}
    /\ chRows = {}
    /\ chSnap = [c \in ChConns |-> {}]
    /\ chGot = [c \in ChConns |-> <<>>]
    /\ chMsgPc = [m \in ChMsgs |-> "idle"]
    /\ chMsgConn = [m \in ChMsgs |-> 0]

\* What the handlers of /chat leave alone.
restH == <<wsVars, hmVars, cwVars, hsVars, crVars, bcVars, uwVars, crMsgVars, auVars>>

\* broadcast(message): the envelope of row m is passed to ws.send of every
\* OPEN socket of clients.
broadcast(m) ==
    [c \in ChConns |->
        IF c \in clients /\ chState[c] = "OPEN"
          THEN Append(chGot[c], [kind |-> "message", rows |-> {m}])
          ELSE chGot[c]]

\* app.ws('/chat'): the socket is put in clients and sendMessageHistory
\* awaits its findMany.
ChConnect(c) ==
    /\ chPc[c] = "idle"
    /\ \A b \in ChConns : b < c => chPc[b] # "idle"
    /\ chState' = [chState EXCEPT ![c] = "OPEN"]
    /\ clients' = clients \cup {c}
    /\ chPc' = [chPc EXCEPT ![c] = "wHist"]
    /\ UNCHANGED <<chRows, chSnap, chGot, chMsgPc, chMsgConn, dbVars, restH>>

\* The store runs the findMany of sendMessageHistory: it reads the rows
\* there are now, or rejects.
ChHistRead(c) ==
    /\ chPc[c] = "wHist"
    /\ \E ok \in StorageOutcomes :
         /\ faulted' = (faulted \/ ~ok)
         /\ chSnap' = [chSnap EXCEPT ![c] = IF ok THEN chRows ELSE {}]
         /\ chPc' = [chPc EXCEPT ![c] = IF ok THEN "wResume" ELSE "wCatch"]
    /\ UNCHANGED <<chState, clients, chRows, chGot, chMsgPc, chMsgConn, dbOnline, dbMembers,
                   dbMsgs, restH>>

\* sendMessageHistory resumes: the history envelope is sent if the socket
\* is OPEN (a rejected findMany is caught and logged); the 'message' and
\* 'close' listeners are registered.
ChHistDone(c) ==
    /\ chPc[c] \in {"wResume", "wCatch"}
    /\ chGot' = [chGot EXCEPT ![c] =
                    IF chPc[c] = "wResume" /\ chState[c] = "OPEN"
                      THEN Append(@, [kind |-> "history", rows |-> chSnap[c]])
                      ELSE @]
    /\ chPc' = [chPc EXCEPT ![c] = "ready"]
    /\ UNCHANGED <<chState, clients, chRows, chSnap, chMsgPc, chMsgConn, dbVars, restH>>

\* The transport closes; the 'close' listener, if registered, deletes the
\* socket from clients.
ChClose(c) ==
    /\ chState[c] = "OPEN"
    /\ chState' = [chState EXCEPT ![c] = "CLOSED"]
    /\ clients' = IF chPc[c] = "ready" THEN clients \ {c} ELSE clients
    /\ UNCHANGED <<chPc, chRows, chSnap, chGot, chMsgPc, chMsgConn, dbVars, restH>>

\* ws.on('message') of client c: chat_messages.create is awaited.
ChRecv(m, c) ==
    /\ chMsgPc[m] = "idle"
    /\ \A q \in ChMsgs : q < m => chMsgPc[q] # "idle"
    /\ chPc[c] = "ready" /\ chState[c] = "OPEN"
    /\ chMsgConn' = [chMsgConn EXCEPT ![m] = c]
    /\ chMsgPc' = [chMsgPc EXCEPT ![m] = "wCreate"]
    /\ UNCHANGED <<chPc, chState, clients, chRows, chSnap, chGot, dbVars, restH>>

\* The store runs the create: the row exists, or the create rejects.
ChCreateCommit(m) ==
    /\ chMsgPc[m] = "wCreate"
    /\ \E ok \in StorageOutcomes :
         /\ faulted' = (faulted \/ ~ok)
         /\ chRows' = IF ok THEN chRows \cup {m} ELSE chRows
         /\ chMsgPc' = [chMsgPc EXCEPT ![m] = IF ok THEN "wResume" ELSE "wCatch"]
    /\ UNCHANGED <<chPc, chState, clients, chSnap, chGot, chMsgConn, dbOnline, dbMembers,
                   dbMsgs, restH>>

\* The listener resumes after the create and broadcasts the row; a rejected
\* create is caught and logged.
ChCreateDone(m) ==
    /\ chMsgPc[m] \in {"wResume", "wCatch"}
    /\ chGot' = IF chMsgPc[m] = "wResume" THEN broadcast(m) ELSE chGot
    /\ chMsgPc' = [chMsgPc EXCEPT ![m] = IF chMsgPc[m] = "wResume" THEN "done" ELSE "failed"]
    /\ UNCHANGED <<chPc, chState, clients, chRows, chSnap, chMsgConn, dbVars, restH>>

\* /chat alone.
ChNext ==
    \/ \E c \in ChConns : ChConnect(c)
    \/ \E c \in ChConns : ChHistRead(c)
    \/ \E c \in ChConns : ChHistDone(c)
    \/ \E c \in ChConns : ChClose(c)
    \/ \E m \in ChMsgs, c \in ChConns : ChRecv(m, c)
    \/ \E m \in ChMsgs : ChCreateCommit(m)
    \/ \E m \in ChMsgs : ChCreateDone(m)

\* ------------------------------------------- /login, /token/refresh, /logout
AuReqs == 1..MaxAuthReqs

\* jwt.sign({ userId }, secret, { expiresIn: '7d' }): the token is a function
\* of the user and of the second it is signed in (iat).
Tokens == (1..MaxAuthUsers) \X (0..MaxClock)

NoToken == <<NoUser, 0>>

NoAuReq == [kind |-> "none", user |-> NoUser, token |-> NoToken, late |-> FALSE]

AuInit ==
    /\ auPc = [r \in AuReqs |-> "idle"]
    /\ auReq = [r \in AuReqs |-> NoAuReq]
    /\ auStatus = [r \in AuReqs |-> 0]
    /\ auRows = [t \in Tokens |-> 0]
    /\ auRevoked = {}
    /\ now = 0

\* What the handlers of the auth routes leave alone.
restT == <<wsVars, hmVars, cwVars, hsVars, crVars, bcVars, uwVars, crMsgVars, chVars>>

\* res.status(code): the request is answered.
AuAnswer(r, code) ==
    /\ auStatus' = [auStatus EXCEPT ![r] = code]
    /\ auPc' = [auPc EXCEPT ![r] = "done"]

\* A request comes in: /login with the credentials of user u (NoUser: wrong
\* ones) awaits user.findUnique; /token/refresh with token tok awaits
\* findFirst; /logout with token tok awaits deleteMany.
AuStart(r, kind, u, tok) ==
    /\ auPc[r] = "idle"
    /\ \A q \in AuReqs : q < r => auPc[q] # "idle"
    /\ IF kind = "login" THEN tok = NoToken ELSE u = NoUser /\ tok \in Tokens
    /\ auReq' = [auReq EXCEPT ![r] =
                    [kind |-> kind, user |-> u, token |-> tok, late |-> tok \in auRevoked]]
    /\ auPc' = [auPc EXCEPT ![r] = IF kind = "login" THEN "wUser"
                                   ELSE IF kind = "refresh" THEN "wFind" ELSE "wDelete"]
    /\ UNCHANGED <<auStatus, auRows, auRevoked, now, dbVars, restT>>

\* /login after findUnique and bcrypt.compare: 401 for wrong credentials;
\* otherwise the tokens are signed and the isOnline=true update is awaited.
AuLoginFound(r) ==
    /\ auPc[r] = "wUser"
    /\ \E ok \in StorageOutcomes :
         /\ faulted' = (faulted \/ ~ok)
         /\ IF ~ok THEN AuAnswer(r, 500) /\ UNCHANGED auReq
            ELSE IF auReq[r].user = NoUser THEN AuAnswer(r, 401) /\ UNCHANGED auReq
            ELSE /\ auReq' = [auReq EXCEPT ![r].token = <<auReq[r].user, now>>]
                 /\ auPc' = [auPc EXCEPT ![r] = "wOnline"]
                 /\ UNCHANGED auStatus
    /\ UNCHANGED <<auRows, auRevoked, now, dbOnline, dbMembers, dbMsgs, restT>>

\* /login after user.update: userRefreshToken.create is awaited.
AuLoginOnline(r) ==
    /\ auPc[r] = "wOnline"
    /\ \E ok \in StorageOutcomes :
         /\ faulted' = (faulted \/ ~ok)
         /\ IF ~ok THEN AuAnswer(r, 500) /\ UNCHANGED dbOnline
            ELSE /\ dbOnline' = SetOnline(auReq[r].user, TRUE)
                 /\ auPc' = [auPc EXCEPT ![r] = "wCreate"]
                 /\ UNCHANGED auStatus
    /\ UNCHANGED <<auReq, auRows, auRevoked, now, dbMembers, dbMsgs, restT>>

\* /login after userRefreshToken.create: a row holds the token; 200 with
\* both tokens.
AuLoginCreated(r) ==
    /\ auPc[r] = "wCreate"
    /\ \E ok \in StorageOutcomes :
         /\ faulted' = (faulted \/ ~ok)
         /\ IF ~ok THEN AuAnswer(r, 500) /\ UNCHANGED auRows
            ELSE /\ auRows' = [auRows EXCEPT ![auReq[r].token] = @ + 1]
                 /\ AuAnswer(r, 200)
    /\ UNCHANGED <<auReq, auRevoked, now, dbOnline, dbMembers, dbMsgs, restT>>

\* /token/refresh after findFirst: 403 without a row or with an expired
\* one, otherwise 200 with an access token.
AuRefreshFound(r) ==
    /\ auPc[r] = "wFind"
    /\ \E ok \in StorageOutcomes, expired \in BOOLEAN :
         /\ faulted' = (faulted \/ ~ok)
         /\ IF ~ok THEN AuAnswer(r, 500)
            ELSE IF auRows[auReq[r].token] = 0 \/ expired THEN AuAnswer(r, 403)
            ELSE AuAnswer(r, 200)
    /\ UNCHANGED <<auReq, auRows, auRevoked, now, dbOnline, dbMembers, dbMsgs, restT>>

\* /logout after deleteMany: every row with the token is gone; 404 if there
\* was none, otherwise 204.
AuLogoutDone(r) ==
    /\ auPc[r] = "wDelete"
    /\ \E ok \in StorageOutcomes :
         /\ faulted' = (faulted \/ ~ok)
         /\ IF ~ok THEN AuAnswer(r, 500) /\ UNCHANGED <<auRows, auRevoked>>
            ELSE IF auRows[auReq[r].token] = 0
              THEN AuAnswer(r, 404) /\ UNCHANGED <<auRows, auRevoked>>
            ELSE /\ auRows' = [auRows EXCEPT ![auReq[r].token] = 0]
                 /\ auRevoked' = auRevoked \cup {auReq[r].token}
                 /\ AuAnswer(r, 204)
    /\ UNCHANGED <<auReq, now, dbOnline, dbMembers, dbMsgs, restT>>

\* A second passes.
AuTick ==
    /\ now < MaxClock
    /\ now' = now + 1
    /\ UNCHANGED <<auPc, auReq, auStatus, auRows, auRevoked, dbVars, restT>>

\* The auth routes alone.
AuNext ==
    \/ \E r \in AuReqs, kind \in {"login", "refresh", "logout"},
          u \in (1..MaxAuthUsers) \cup {NoUser}, tok \in Tokens \cup {NoToken} :
             AuStart(r, kind, u, tok)
    \/ \E r \in AuReqs : AuLoginFound(r)
    \/ \E r \in AuReqs : AuLoginOnline(r)
    \/ \E r \in AuReqs : AuLoginCreated(r)
    \/ \E r \in AuReqs : AuRefreshFound(r)
    \/ \E r \in AuReqs : AuLogoutDone(r)
    \/ AuTick

\* ------------------------------------------- the three message send paths
\* The endpoints keep separate registries and meet only in the store.  Here
\* a behaviour uses one of /usersWS, /chatroom and HTTP send-message with
\* /chatWS, whichever it starts with.
UwUnused == \A c \in UwConns : uwPc[c] = "idle"
CrUnused == \A c \in CrConns : crPc[c] = "idle"
CwUnused == (\A c \in CwConns : cwPc[c] = "idle") /\ (\A r \in Reqs : hsPc[r] = "idle")

PersistConns == 1..MaxPersistConns
PersistSendConns == 1..MaxPersistSendConns
PersistMsgs == 1..MaxPersistMsgs

PersistNext ==
    \/ \E c \in PersistConns, uid \in UwUsers \cup {NoUser} :
          CrUnused /\ CwUnused /\ UwConnect(c, uid)
    \/ \E c \in PersistConns : CrUnused /\ CwUnused /\ UwOnlineDone(c)
    \/ \E c \in PersistConns : CrUnused /\ CwUnused /\ UwPostsDone(c)
    \/ \E c \in PersistConns : CrUnused /\ CwUnused /\ UwUsersDone(c)
    \/ \E c \in PersistConns : CrUnused /\ CwUnused /\ UwClose(c)
    \/ \E c \in PersistConns : CrUnused /\ CwUnused /\ UwOfflineDone(c)
    \/ \E m \in UwMsgs, c \in PersistConns, u \in UwUsers, v \in UwUsers :
          CrUnused /\ CwUnused /\ UwRecv(m, c, "send", u, v)
    \/ \E m \in UwMsgs : CrUnused /\ CwUnused /\ UwChatDone(m)
    \/ \E m \in UwMsgs : CrUnused /\ CwUnused /\ UwMkChatDone(m)
    \/ \E m \in UwMsgs : CrUnused /\ CwUnused /\ UwCreateDone(m)
    \/ \E m \in UwMsgs : CrUnused /\ CwUnused /\ UwUpdateDone(m)
    \/ \E c \in PersistConns, uid \in RoomUsers : UwUnused /\ CwUnused /\ CrConnect(c, uid)
    \/ \E c \in PersistConns : UwUnused /\ CwUnused /\ CrOnlineDone(c)
    \/ \E c \in PersistConns : UwUnused /\ CwUnused /\ CrUsersDone(c)
    \/ \E c \in PersistConns : UwUnused /\ CwUnused /\ CrChatsDone(c)
    \/ \E c \in PersistConns : UwUnused /\ CwUnused /\ CrClose(c)
    \/ \E c \in PersistConns : UwUnused /\ CwUnused /\ CrOfflineDone(c)
    \/ \E c \in PersistConns : UwUnused /\ CwUnused /\ CrLeftDone(c)
    \/ \E m \in PersistMsgs, c \in PersistConns, v \in Users :
          UwUnused /\ CwUnused /\ CrRecv(m, c, "private", v)
    \/ \E m \in PersistMsgs : UwUnused /\ CwUnused /\ CrChatDone(m)
    \/ \E m \in PersistMsgs : UwUnused /\ CwUnused /\ CrMkChatDone(m)
    \/ \E m \in PersistMsgs : UwUnused /\ CwUnused /\ CrCreateDone(m)
    \/ \E m \in PersistMsgs : UwUnused /\ CwUnused /\ CrUpdateDone(m)
    \/ \E m \in PersistMsgs : UwUnused /\ CwUnused /\ CrReadDone(m)
    \/ \E c \in PersistSendConns, uid \in Users : UwUnused /\ CrUnused /\ CwConnect(c, uid)
    \/ \E c \in PersistSendConns : UwUnused /\ CrUnused /\ CwOnlineDone(c)
    \/ \E c \in PersistSendConns : UwUnused /\ CrUnused /\ CwAutoSubDone(c)
    \/ \E c \in PersistSendConns : UwUnused /\ CrUnused /\ CwChatsDone(c)
    \/ \E c \in PersistSendConns : UwUnused /\ CrUnused /\ CwClose(c)
    \/ \E c \in PersistSendConns : UwUnused /\ CrUnused /\ CwOfflineDone(c)
    \/ \E r \in Reqs, u \in Users, v \in Users, ch \in Chats \cup {0} :
          UwUnused /\ CrUnused /\ HsStart(r, u, v, ch)
    \/ \E r \in Reqs : UwUnused /\ CrUnused /\ HsMember(r)
    \/ \E r \in Reqs : UwUnused /\ CrUnused /\ HsFind(r)
    \/ \E r \in Reqs : UwUnused /\ CrUnused /\ HsMkChat(r)
    \/ \E r \in Reqs : UwUnused /\ CrUnused /\ HsExists(r)
    \/ \E r \in Reqs : UwUnused /\ CrUnused /\ HsCreate(r)
    \/ \E r \in Reqs : UwUnused /\ CrUnused /\ HsUpdate(r)

\* ------------------------------------- the three handshakes with identity
\* /WS, /chatWS and /chatroom, one endpoint per behaviour.
WsUnused == \A s \in Sockets : wsPc[s] = "idle"

AnonConns == 1..MaxAnonConns

AnonNext ==
    \/ \E s \in AnonConns, uid \in Users \cup {NoUser} :
          CwUnused /\ CrUnused /\ WsConnect(s, uid)
    \/ \E s \in AnonConns : CwUnused /\ CrUnused /\ WsAuthDone(s)
    \/ \E s \in AnonConns : CwUnused /\ CrUnused /\ WsConnUpdate(s)
    \/ \E s \in AnonConns : CwUnused /\ CrUnused /\ WsConnNotify(s)
    \/ \E s \in AnonConns : CwUnused /\ CrUnused /\ WsDisconnect(s)
    \/ \E s \in AnonConns : CwUnused /\ CrUnused /\ WsDiscUpdate(s)
    \/ \E c \in AnonConns, uid \in Users \cup {NoUser} :
          WsUnused /\ CrUnused /\ CwConnect(c, uid)
    \/ \E c \in AnonConns : WsUnused /\ CrUnused /\ CwOnlineDone(c)
    \/ \E c \in AnonConns : WsUnused /\ CrUnused /\ CwAutoSubDone(c)
    \/ \E c \in AnonConns : WsUnused /\ CrUnused /\ CwChatsDone(c)
    \/ \E c \in AnonConns : WsUnused /\ CrUnused /\ CwClose(c)
    \/ \E c \in AnonConns : WsUnused /\ CrUnused /\ CwOfflineDone(c)
    \/ \E c \in AnonConns, uid \in RoomUsers \cup {NoUser} :
          WsUnused /\ CwUnused /\ CrConnect(c, uid)
    \/ \E c \in AnonConns : WsUnused /\ CwUnused /\ CrOnlineDone(c)
    \/ \E c \in AnonConns : WsUnused /\ CwUnused /\ CrUsersDone(c)
    \/ \E c \in AnonConns : WsUnused /\ CwUnused /\ CrChatsDone(c)
    \/ \E c \in AnonConns : WsUnused /\ CwUnused /\ CrClose(c)
    \/ \E c \in AnonConns : WsUnused /\ CwUnused /\ CrOfflineDone(c)
    \/ \E c \in AnonConns : WsUnused /\ CwUnused /\ CrLeftDone(c)

\* /WS alone: the presence service.
WsNext ==
    \/ \E s \in Sockets, uid \in Users \cup {NoUser} : WsConnect(s, uid)
    \/ \E s \in Sockets : WsAuthDone(s)
    \/ \E s \in Sockets : WsConnUpdate(s)
    \/ \E s \in Sockets : WsConnNotify(s)
    \/ \E s \in Sockets : WsDisconnect(s)
    \/ \E s \in Sockets : WsDiscUpdate(s)

\* The HTTP chat routes with the /WS sockets they publish to.
HttpSockets == 1..MaxHttpSockets

HttpNext ==
    \/ \E s \in HttpSockets, uid \in Users : WsConnect(s, uid)
    \/ \E s \in HttpSockets : WsAuthDone(s)
    \/ \E s \in HttpSockets : WsConnUpdate(s)
    \/ \E s \in HttpSockets : WsConnNotify(s)
    \/ \E s \in HttpSockets : WsDisconnect(s)
    \/ \E s \in HttpSockets : WsDiscUpdate(s)
    \/ \E r \in Reqs, u \in Users, ch \in Chats, k \in {"text", "image"} : HmStart(r, u, ch, k)
    \/ \E r \in Reqs : HmMember(r)
    \/ \E r \in Reqs : HmUpload(r)
    \/ \E r \in Reqs : HmCreate(r)
    \/ \E r \in Reqs : HmUpdate(r)

vars == <<dbVars, wsVars, hmVars, cwVars, hsVars, crVars, bcVars, uwVars, crMsgVars,
          chVars, auVars>>

Init ==
    /\ DbInit /\ WsInit /\ HmInit /\ CwInit /\ HsInit /\ CrInit /\ BcInit /\ UwInit /\ CrMsgInit
    /\ ChInit /\ AuInit

SpecWS == Init /\ [][WsNext]_vars

SpecHttp == Init /\ [][HttpNext]_vars

SpecChatWS == Init /\ [][CwNext]_vars

SpecSend == Init /\ [][SendNext]_vars

SpecChatRoom == Init /\ [][CrNext]_vars

SpecFanout == Init /\ [][FanNext]_vars

SpecUsersWS == Init /\ [][UwNext]_vars

SpecRoomMsg == Init /\ [][RoomMsgNext]_vars
SpecRoomJoin == Init /\ [][RoomJoinNext]_vars
SpecRoomFan == Init /\ [][RoomFanNext]_vars
SpecChat == Init /\ [][ChNext]_vars
SpecAuth == Init /\ [][AuNext]_vars

SpecPersist == Init /\ [][PersistNext]_vars

SpecAnon == Init /\ [][AnonNext]_vars

\* ------------------------------------------------------------------ claims

\* No handler of /WS is suspended on a storage call.
WsQuiescent == \A s \in Sockets : wsPc[s] \in {"idle", "ready", "gone"}

\* Every disconnect so far was seen by a registered 'disconnect' listener
\* (no socket went away while its connection handler was still suspended).
WsNoMissedDisconnect == \A s \in Sockets : wsPc[s] = "ready" => wsLive[s]

\* C1: on the Socket.IO presence service, a user is in onlineUsers exactly
\* when at least one authenticated socket of the user has connected and not
\* yet disconnected.  Stated where the claim is most favourable to the code:
\* no storage call has failed, no handler is in flight, no disconnect fell
\* into a suspended connection handler.
C1_OnlineIffLiveSocket ==
    (~faulted /\ WsQuiescent /\ WsNoMissedDisconnect) =>
        \A u \in Users : isUserOnline(u) <=> WsLiveOf(u) # {}

\* C4: the number of offline events published for a user never exceeds the
\* number of times the live connections of that user dropped from one to
\* zero (stated for the runs in which no storage call failed).
C4_OfflineEventsAtMostDrops ==
    ~faulted => \A u \in Users : wsOfflineEv[u] <= wsDrops[u]

\* C8: a chat message is delivered only to connections whose user is a
\* member of the conversation of the message.
C8_DeliveredOnlyToMembers ==
    \A d \in wsDelivered : IsMember(hmReq[d[1]].chat, wsUser[d[2]])

\* C9: a send into a conversation by a user who is not a member of it
\* persists no message and fans nothing out, on the text and the image path.
C9_NonMemberSendRejected ==
    \A r \in Reqs :
        (hmPc[r] # "idle" /\ ~IsMember(hmReq[r].chat, hmReq[r].sender)) =>
            /\ \A m \in dbMsgs : m.id # r
            /\ \A d \in wsDelivered : d[1] # r

\* No handler of /chatWS is suspended on a storage call.
CwQuiescent == \A c \in CwConns : cwPc[c] \in {"idle", "ready", "closed"}

\* C2: on /chatWS a user_online event is published only by a connection that
\* took its user from zero to one live connection (no storage call failed).
C2_OnlineEventOnlyOnFirst ==
    ~faulted => \A c \in CwConns : cwHist[c].pubOnline => cwHist[c].first

\* C3: the close of a connection whose user kept another live connection
\* writes no isOnline=false and publishes no user_offline (no storage call
\* failed).
C3_NoOfflineWhileOthersLive ==
    \A c \in CwConns :
        (~faulted /\ cwPc[c] = "closed" /\ cwUser[c] # NoUser /\ ~cwHist[c].last) =>
            (~cwHist[c].wroteOffline /\ ~cwHist[c].pubOffline)

\* C5: once the handlers of a connection whose transport closed have run,
\* the connection is in no registry and among no fan-out recipients (no
\* storage call failed).
C5_ClosedConnectionRemoved ==
    \A c \in CwConns :
        (~faulted /\ cwState[c] = "CLOSED" /\ cwPc[c] \in {"ready", "closed"}) =>
            /\ c \notin Range(userConnections)
            /\ \A ch \in Chats : c \notin ChatRecipients(ch)
            /\ \A u \in Users : c \notin UserRecipients(u)

\* C6: once the last live connection of an identified user has closed and
\* every handler has run, the user is written offline (no storage call
\* failed).
C6_LastCloseWritesOffline ==
    (~faulted /\ CwQuiescent) =>
        \A u \in Users :
            ((\E c \in CwConns : cwUser[c] = u /\ cwState[c] = "CLOSED") /\ CwLiveOf(u) = {})
                => dbOnline[u] = FALSE

\* C10: every chat a /chatWS connection is subscribed to is a chat its user
\* is a member of, and no connection of a non-member of a chat is among the
\* recipients broadcastToChat resolves for that chat or has been sent one
\* of its messages by broadcastToChat.
C10_SubscribedOnlyMemberChats ==
    /\ \A c \in CwConns : \A ch \in subscribedChats[c] : IsMember(ch, cwUser[c])
    /\ \A ch \in Chats : \A c \in ChatRecipients(ch) : IsMember(ch, cwUser[c])
    /\ \A d \in cwSent : d.via = "chat" => IsMember(hsTarget[d.msg], cwUser[d.to])

\* C10 witness: broadcastToChat delivered a message of a chat to a subscriber
\* while an open, fully connected connection of a non-member was registered,
\* after a chat had been created beside the initial one.
C10_Witness ==
    \E d \in cwSent :
        /\ d.via = "chat"
        /\ \E c \in CwConns :
              /\ cwPc[c] = "ready" /\ cwState[c] = "OPEN"
              /\ ~IsMember(hsTarget[d.msg], cwUser[c])
              /\ subscribedChats[c] # {}

\* No handshake of user u on /chatroom is in flight.
CrSettled(u) ==
    \A c \in CrConns : crUser[c] = u => crPc[c] \notin {"wOnline", "wUsers", "wChats"}

\* Every socket of user u in the registry is OPEN: no close was missed.
CrNoMissedClose(u) ==
    \A c \in CrConns :
        crUser[c] = u /\ crState[c] = "CLOSED" => c \notin Range(roomClients[u])

\* Claim C7: on /chatroom, once the handshakes of a user have run to their
\* end (no storage failure, no close missed), a socket that took the user
\* from zero live connections to one has written the user online, and
\* user_joined was broadcast for the user and has reached every OPEN
\* registered socket of the other users that completed its own handshake
\* before the user connected.
C7_FirstConnectionPublishesOnline ==
    ~faulted =>
      \A c \in CrConns :
        (/\ crUser[c] # NoUser
         /\ crHist[c].first
         /\ CrSettled(crUser[c])
         /\ CrNoMissedClose(crUser[c]))
        => /\ crHist[c].wroteOnline
           /\ \E b \in CrConns : crUser[b] = crUser[c] /\ crHist[b].pubJoined
           /\ \A d \in CrConns :
                 (d < c /\ crUser[d] \notin {NoUser, crUser[c]} /\ crPc[d] = "ready"
                        /\ crState[d] = "OPEN")
                 => crUser[c] \in crSeen[d]

\* The connections that are subscribed to the chat of the latest
\* broadcastToChat call, are OPEN and whose send does not throw, in the
\* state the call is made in.
BcExpected(call) ==
    {c \in Range(userConnections) : /\ call.chat \in subscribedChats[c]
                                    /\ cwState[c] = "OPEN"
                                    /\ c \notin call.bad}

\* Claim C11: a call of broadcastToChat lets no exception escape, and every
\* subscribed OPEN connection whose own send does not throw receives the
\* envelope, whichever other sends throw.
C11_ThrowingSendIsolated ==
    [][bcCall' # bcCall =>
         /\ ~bcCall'.escaped
         /\ BcExpected(bcCall') \subseteq bcCall'.got]_vars

\* C11 witness: in a call the send to one subscriber threw and another
\* subscriber received the envelope.
C11_Witness ==
    /\ bcCall.chat # 0
    /\ \E c \in bcCall.bad : bcCall.chat \in subscribedChats[c] /\ c \notin bcCall.got
    /\ bcCall.got # {}

\* Claim C12: the count broadcastToChat returns is the number of connections
\* that are subscribed, OPEN at the call and whose send did not throw, and
\* only those connections received the envelope.
C12_CountIsDelivered ==
    [][bcCall' # bcCall =>
         /\ bcCall'.count = Cardinality(BcExpected(bcCall'))
         /\ bcCall'.got \subseteq BcExpected(bcCall')]_vars

\* C12 witness: a call in which no send threw returned 1 while a subscribed
\* connection with a CLOSED transport was in the registry and got nothing.
C12_Witness ==
    /\ bcCall.count = 1
    /\ bcCall.bad = {}
    /\ \E c \in Range(userConnections) :
          /\ bcCall.chat \in subscribedChats[c]
          /\ cwState[c] = "CLOSED"
          /\ c \notin bcCall.got

C15_SenderToldOfFailedPersist ==
    \A m \in CrMsgs :
        (crFailed[m] = "create" /\ crState[crMsg[m].conn] = "OPEN") =>
            [to |-> crMsg[m].conn, kind |-> "error", msg |-> m] \in crOut

\* Claim C16: a payload of /chatroom that fails to parse or carries an
\* unknown type, once handled, has produced an error envelope to the socket
\* it came from, if that socket is still OPEN.
C16_MalformedAnsweredWithError ==
    \A m \in CrMsgs :
        (/\ crMsg[m].kind \in {"bad", "unknown"}
         /\ crMsgPc[m] = "done"
         /\ crState[crMsg[m].conn] = "OPEN") =>
            [to |-> crMsg[m].conn, kind |-> "error", msg |-> m] \in crOut

\* Position of x in sequence q (0 = absent).
IndexOf(q, x) ==
    IF \E i \in 1..Len(q) : q[i] = x THEN CHOOSE i \in 1..Len(q) : q[i] = x ELSE 0

\* x and y are both in q, and y stands before x.
Swapped(q, x, y) == IndexOf(q, x) # 0 /\ IndexOf(q, y) # 0 /\ IndexOf(q, y) < IndexOf(q, x)

\* Claim C17: two private_message payloads the server received from one
\* socket for one receiver, in that order, are persisted in that order and
\* sent to each socket of the receiver in that order (no storage call
\* failed).
C17_PerConnectionOrder ==
    ~faulted =>
      \A m1, m2 \in CrMsgs :
        (/\ m1 < m2
         /\ crMsg[m1].kind = "private" /\ crMsg[m2].kind = "private"
         /\ crMsg[m1].conn = crMsg[m2].conn
         /\ crMsg[m1].receiver = crMsg[m2].receiver)
        => /\ ~Swapped(crStored, m1, m2)
           /\ \A c \in CrConns : ~Swapped(crOrder[c], m1, m2)

\* Claim C14: on /usersWS, /chatroom and HTTP send-message, a message
\* envelope is sent to a connection only for a message whose row was
\* created: a payload or request whose message.create (or the chat lookup
\* before it) rejected has no new_message, private_message or confirmation
\* envelope sent to anyone.
C14_FailedPersistNoFanout ==
    /\ \A d \in uwSent : d.kind = "new_message" =>
          (UwMsgOf(d.msg) \in dbMsgs /\ uwFailed[d.msg] \notin {"chat", "create"})
    /\ \A d \in crOut : d.kind \in {"private_message", "confirm"} =>
          (RoomMsgOf(d.msg) \in dbMsgs /\ crFailed[d.msg] \notin {"chat", "create"})
    /\ \A d \in cwSent : SendMsgOf(d.msg) \in dbMsgs

\* C14 witness: the message.create of a /usersWS payload rejected while the
\* receiver had an OPEN connection sendToUser would have reached, and the
\* sender got the error envelope.
C14_Witness ==
    \E m \in UwMsgs :
        /\ uwFailed[m] = "create"
        /\ UwUserRecipients(uwMsg[m].receiver) # {}
        /\ \E d \in uwSent : d.kind = "error" /\ d.msg = m

\* No identified connection has been made on /WS, /chatWS or /chatroom.
OnlyAnonymous ==
    /\ \A s \in Sockets : wsUser[s] = NoUser
    /\ \A c \in CwConns : cwUser[c] = NoUser
    /\ \A c \in CrConns : crUser[c] = NoUser

\* Claim C18: a connection without a resolved identity is never at a
\* presence write of its own, has written and published nothing, holds no
\* subscription and no registry entry of a user; and as long as only such
\* connections were made the store and the event counters are untouched.
C18_AnonymousLeavesNoPresence ==
    /\ \A s \in Sockets :
          (wsUser[s] = NoUser /\ wsPc[s] # "idle") =>
             /\ wsPc[s] = "gone" /\ ~wsLive[s]
             /\ \A u \in Users : onlineUsers[u] # s
    /\ \A c \in CwConns :
          (cwUser[c] = NoUser /\ cwState[c] # "NONE") =>
             /\ cwPc[c] \in {"ready", "closed"}
             /\ cwHist[c] = NoHist
             /\ subscribedChats[c] = {}
    /\ \A c \in CrConns :
          (crUser[c] = NoUser /\ crState[c] # "NONE") =>
             /\ crPc[c] = "closed"
             /\ crHist[c] = NoRoomHist
             /\ \A u \in Users : c \notin Range(roomClients[u])
    /\ OnlyAnonymous =>
          /\ dbOnline = [u \in Users |-> FALSE]
          /\ \A u \in Users : wsOnlineEv[u] = 0 /\ wsOfflineEv[u] = 0
          /\ ~faulted

\* C18 witness: an anonymous /chatWS connection connected beside an
\* identified one that wrote its user online, and has closed.
C18_Witness ==
    \E c, b \in CwConns :
        /\ cwUser[c] = NoUser /\ cwState[c] = "CLOSED" /\ cwPc[c] = "closed"
        /\ cwUser[b] # NoUser /\ cwHist[b].wroteOnline

\* The close of every CLOSED /chatWS connection reached its listener.
CwNoMissedClose == \A c \in CwConns : cwState[c] = "CLOSED" => cwPc[c] \in {"wOffline", "closed"}

\* Claim C19: on /chatWS, whenever no handler is suspended on a storage call
\* (none has failed, no close was missed), the stored isOnline of every user
\* is TRUE exactly when the user has an OPEN identified connection.
C19_StoredFlagAgreesWithLive ==
    (~faulted /\ CwQuiescent /\ CwNoMissedClose) =>
        \A u \in Users :
            dbOnline[u] = (\E c \in CwConns : cwUser[c] = u /\ cwState[c] = "OPEN")

\* Claim C20: on /chatWS, while the isOnline=false update of a close
\* listener is in flight, the closed connection is no longer in
\* userConnections (no storage call failed).
C20_RemovedBeforeOfflineWrite ==
    ~faulted => \A c \in CwConns : cwPc[c] = "wOffline" => c \notin Range(userConnections)

\* Claim C21: a rejected storage write does not stop the in-memory
\* transition of the presence service: when onUserConnected has finished
\* its update the user is online, when onUserDisconnected has finished its
\* update the user is not, whatever the update answered.
C21_FailedWriteStillFlips ==
    [][\A s \in Sockets :
          /\ (wsPc[s] = "upd" /\ wsPc'[s] # "upd") => isUserOnline(wsUser[s])'
          /\ (wsPc[s] = "dupd" /\ wsPc'[s] # "dupd") => ~isUserOnline(wsUser[s])']_vars

\* Claim C22: an identified /chatWS connection whose isOnline=true update
\* was rejected is, once its handshake is over, subscribed to every chat of
\* its user.
C22_FailedOnlineWriteStillSubscribed ==
    \A c \in CwConns :
        (cwUser[c] # NoUser /\ cwPc[c] = "ready" /\ ~cwHist[c].wroteOnline)
            => ChatsOf(cwUser[c]) \subseteq subscribedChats[c]

\* Claim C29: the sender stored with a message that arrived on a WebSocket
\* connection that identified itself is the user resolved for that
\* connection at its handshake.
C29_SenderIsConnectionUser ==
    ~faulted => \A row \in dbMsgs :
        /\ (row.kind = "usersWS" /\ uwUser[uwMsg[row.id].conn] # NoUser)
              => row.sender = uwUser[uwMsg[row.id].conn]
        /\ row.kind = "chatroom" => row.sender = crUser[crMsg[row.id].conn]

\* Claim C30: the new_message envelope of one send-message request reaches
\* a /chatWS connection by one call of ws.send at most.
C30_EnvelopeAtMostOnce ==
    \A d, e \in cwSent : (d.to = e.to /\ d.msg = e.msg) => d.via = e.via

\* Claim C24: in /chatroom every key of userConnections maps to a list with
\* at least one connection.
C24_NoEmptyConnectionList ==
    \A u \in Users : u \in roomKeys => Len(roomClients[u]) >= 1

\* C24 witness: the close listener of the last connection of a user has
\* deleted the entry of that user while another user still has one.
C24_Witness ==
    \E c \in CrConns :
        /\ crPc[c] = "wOffline" /\ crUser[c] \notin roomKeys
        /\ roomClients[crUser[c]] = <<>>
        /\ roomKeys # {}

\* Claim C25: the online users a /chatroom socket is sent at connect are
\* those of the registry, whatever the store holds: when no storage call
\* has failed, the users getAllUsersInfo marks online are the users with an
\* entry in userConnections.
C25_OnlineListFromRegistryOnly ==
    [][\A c \in CrConns :
          (crPc[c] = "wUsers" /\ crPc'[c] = "wChats" /\ ~faulted')
              => getAllUsersInfo(TRUE) = roomKeys]_vars

\* Claim C28: the /chatroom connection handler calls ws.send on its socket
\* (the user list, then the chats) only while the socket is OPEN.
C28_SendOnlyWhileOpen ==
    [][\A c \in CrConns :
          (\/ crPc[c] = "wUsers" /\ crPc'[c] = "wChats"
           \/ crPc[c] = "wChats" /\ crPc'[c] = "ready") => crState[c] = "OPEN"]_vars

\* No 'message' listener of /chatroom is suspended on a storage call.
CrMsgsSettled == \A m \in CrMsgs : crMsgPc[m] \notin {"wChat", "wMkChat", "wCreate", "wUpdate", "wRead"}

\* Claim C23: once the last /chatroom connection of a user has closed and
\* every handler has finished (no storage call failed, no close missed),
\* userActiveChats has no entry for the user.
C23_NoActiveChatAfterLastClose ==
    \A u \in Users :
        (/\ ~faulted /\ CrNoMissedClose(u) /\ CrMsgsSettled
         /\ \A c \in CrConns : crUser[c] = u => crPc[c] = "closed")
            => userActiveChats[u] = 0

\* The /chatWS connections a step takes out of userConnections.
CwRemoved == Range(userConnections) \ Range(userConnections')

\* The /chatroom sockets a step takes out of the list of user u.
CrRemoved(u) == Range(roomClients[u]) \ Range(roomClients'[u])

\* Claim C26: a step that takes a connection out of the registry takes out
\* one connection, a CLOSED one, keeps the others in their order, and leaves
\* the identity and the subscribedChats of every other connection as they
\* were; on /chatroom the lists of the other users are untouched.
C26_CloseRemovesOnlyItself ==
    [][/\ CwRemoved # {} =>
              \E c \in CwRemoved :
                  /\ cwState'[c] = "CLOSED"
                  /\ userConnections' = SelectSeq(userConnections, LAMBDA x : x # c)
                  /\ \A b \in CwConns \ {c} :
                        /\ cwUser'[b] = cwUser[b]
                        /\ cwState'[b] = cwState[b]
                        /\ subscribedChats'[b] = subscribedChats[b]
       /\ \A u \in Users : CrRemoved(u) # {} =>
              \E c \in CrRemoved(u) :
                  /\ crState'[c] = "CLOSED"
                  /\ roomClients'[u] = SelectSeq(roomClients[u], LAMBDA x : x # c)
                  /\ \A v \in Users \ {u} : roomClients'[v] = roomClients[v]
                  /\ \A b \in CrConns \ {c} :
                        crUser'[b] = crUser[b] /\ crState'[b] = crState[b]]_vars

\* C26 witness: the close listener has removed a /chatWS connection of a
\* user whose other connection, pushed after it, is still registered, OPEN
\* and subscribed.
C26_Witness ==
    \E c, b \in CwConns :
        /\ c < b /\ cwUser[c] = cwUser[b] /\ cwUser[c] # NoUser
        /\ cwPc[c] = "closed" /\ c \notin Range(userConnections)
        /\ b \in Range(userConnections) /\ cwState[b] = "OPEN"
        /\ subscribedChats[b] # {}

\* Claim C27: a call of sendToUser of /chatroom delivers to every OPEN
\* socket of the user whose send does not throw, whatever the other sends
\* of the call do.
C27_RoomThrowingSendIsolated ==
    [][crCall' # crCall =>
          \A c \in RoomUserRecipients(crCall'.user) \ crCall'.bad : c \in crCall'.got]_vars

\* Claim C31: in /chatroom the isRead=true update of a private message
\* resolves, and the sender is confirmed the message as read, only if the
\* private_message envelope was passed to ws.send of an OPEN socket of the
\* receiver (no storage call failed).
C31_ReadOnlyIfDelivered ==
    [][\A m \in CrMsgs :
          (crMsgPc[m] = "wRead" /\ crMsgPc'[m] = "sent" /\ ~faulted')
              => \E d \in crOut : d.msg = m /\ d.kind = "private_message"]_vars

\* The rows client c has been sent, in its history or live.
ChSeen(c) == UNION {chGot[c][i].rows : i \in 1..Len(chGot[c])}

\* On /chat no message envelope is sent to a client before its history (no
\* storage call failed).
ChHistoryFirst ==
    ~faulted =>
        \A c \in ChConns : \A i \in 1..Len(chGot[c]) :
            chGot[c][i].kind = "message"
                => \E j \in 1..(i - 1) : chGot[c][j].kind = "history"

\* On /chat a client that is OPEN and has its history has been sent every
\* row that was broadcast.
ChNothingLost ==
    \A c \in ChConns :
        (chPc[c] = "ready" /\ chState[c] = "OPEN" /\ ~faulted)
            => \A m \in ChMsgs : chMsgPc[m] = "done" => m \in ChSeen(c)

\* Claim C32: on /chat a client is sent its history envelope before any
\* live message envelope, and every message broadcast is in what the client
\* was sent, in the history or live.
C32_HistoryFirstNothingLost == ChHistoryFirst /\ ChNothingLost

\* Claim C33: a /token/refresh that comes in with a token a /logout has
\* removed is not answered with an access token, and a /logout that comes
\* in with such a token is answered 404 (no storage call failed).
C33_LoggedOutTokenIsDead ==
    ~faulted =>
        \A r \in AuReqs :
            (auPc[r] = "done" /\ auReq[r].late) =>
                /\ auReq[r].kind = "refresh" => auStatus[r] # 200
                /\ auReq[r].kind = "logout" => auStatus[r] = 404

====
